---- MODULE Spec2Model ----
(***************************************************************************)
(* Model of the dual-store bulk operations of kobocat's DataViewSet        *)
(* (onadata/apps/api/viewsets/data_viewset.py): the filter resolver        *)
(* __build_db_queries, bulk_delete, bulk_validation_status and destroy,    *)
(* run by request workers that share the relational store, the document    *)
(* store, the forms' cached counters and the process-wide signal registry. *)
(***************************************************************************)
EXTENDS Integers, Sequences, FiniteSets, TLC

(***************************************************************************)
(* JSON values as Python sees them after request parsing.  Every value is  *)
(* a record of the same shape so that any two values can be compared.      *)
(* A dict is a set of <<key, value>> pairs with unique keys.               *)
(***************************************************************************)
JNull == [type |-> "null", b |-> FALSE, n |-> 0, s |-> "", items |-> <<>>, map |-> {}]

JBool(x) == [type |-> "bool", b |-> x, n |-> 0, s |-> "", items |-> <<>>, map |-> {}]

JInt(x) == [type |-> "int", b |-> FALSE, n |-> x, s |-> "", items |-> <<>>, map |-> {}]

JStr(x) == [type |-> "str", b |-> FALSE, n |-> 0, s |-> x, items |-> <<>>, map |-> {}]

JList(x) == [type |-> "list", b |-> FALSE, n |-> 0, s |-> "", items |-> x, map |-> {}]

JDict(x) == [type |-> "dict", b |-> FALSE, n |-> 0, s |-> "", items |-> <<>>, map |-> x]

Keys(d) == {kv[1] : kv \in d.map}

Has(d, k) == k \in Keys(d)

Get(d, k) == (CHOOSE kv \in d.map : kv[1] = k)[2]

\* dict.update(other): the keys of other override those of d
DictUpdate(d, other) ==
    JDict({kv \in d.map : kv[1] \notin Keys(other)} \cup other.map)

\* Python truth value of a JSON value (the `if value_` of the payload filter)
Truthy(v) ==
    CASE v.type = "null" -> FALSE
      [] v.type = "bool" -> v.b
      [] v.type = "int"  -> v.n # 0
      [] v.type = "str"  -> v.s # ""
      [] v.type = "list" -> Len(v.items) > 0
      [] v.type = "dict" -> v.map # {}

Range(seq) == {seq[i] : i \in 1..Len(seq)}

(***************************************************************************)
(* Python's int() on a JSON value, as used to validate submission ids.     *)
(***************************************************************************)
Numerals == {"1", "2", "3", "4", "5", "6"}

NumeralValue(s) ==
    CASE s = "1" -> 1 [] s = "2" -> 2 [] s = "3" -> 3 [] s = "4" -> 4 [] s = "5" -> 5
      [] s = "6" -> 6

\* [exc |-> "none", n |-> value] or [exc |-> "ValueError" | "TypeError", n |-> 0]
PyInt(v) ==
    CASE v.type = "int"  -> [exc |-> "none", n |-> v.n]
      [] v.type = "bool" -> [exc |-> "none", n |-> IF v.b THEN 1 ELSE 0]
      [] v.type = "str"  ->
            IF v.s \in Numerals THEN [exc |-> "none", n |-> NumeralValue(v.s)]
            ELSE [exc |-> "ValueError", n |-> 0]
      [] OTHER -> [exc |-> "TypeError", n |-> 0]

\* A set of integers as the ascending list
RECURSIVE SortedSeq(_)
SortedSeq(S) ==
    IF S = {} THEN <<>>
    ELSE LET m == CHOOSE x \in S : \A y \in S : x <= y
         IN  <<m>> \o SortedSeq(S \ {m})

\* The keys of a dict in the order the dict yields them
RECURSIVE KeySeq(_)
KeySeq(S) ==
    IF S = {} THEN <<>>
    ELSE LET k == CHOOSE x \in S : TRUE
         IN  <<k>> \o KeySeq(S \ {k})

\* Python iteration over a JSON value: [exc, items].  Strings used as
\* submission_ids in the payload universe have one character, which is the
\* string's only element; a dict yields its keys.
PyIter(v) ==
    CASE v.type = "list" -> [exc |-> "none", items |-> v.items]
      [] v.type = "str"  -> [exc |-> "none", items |-> <<JStr(v.s)>>]
      [] v.type = "dict" ->
            [exc |-> "none",
             items |-> [i \in 1..Cardinality(Keys(v)) |-> JStr(KeySeq(Keys(v))[i])]]
      [] OTHER -> [exc |-> "TypeError", items |-> <<>>]

\* [int(x) for x in seq]: the first failing element decides the exception
IntList(seq) ==
    LET bad == {i \in 1..Len(seq) : PyInt(seq[i]).exc # "none"}
    IN  IF bad = {}
        THEN [exc |-> "none", items |-> [i \in 1..Len(seq) |-> JInt(PyInt(seq[i]).n)]]
        ELSE LET first == CHOOSE i \in bad : \A j \in bad : i <= j
             IN  [exc |-> PyInt(seq[first]).exc, items |-> <<>>]

(***************************************************************************)
(* Forms, and the two stores.                                              *)
(***************************************************************************)
\* The forms: id, owner's username and id_string
XForms == { [id |-> 1, username |-> "bob", id_string |-> "survey"],
            [id |-> 2, username |-> "alice", id_string |-> "census"] }

XFormIds == {x.id : x \in XForms}

XFormById(i) == CHOOSE x \in XForms : x.id = i

USERFORM_ID == "_userform_id"

\* ParsedInstance.get_base_query(username, id_string): the scope of a form
get_base_query(username, id_string) ==
    JDict({ <<USERFORM_ID, JStr(username \o "_" \o id_string)>> })

\* The value a document holds for a key of a query (null when it has none)
DocField(doc, k) ==
    CASE k = "_id" -> JInt(doc._id)
      [] k = USERFORM_ID -> JStr(doc._userform_id)
      [] k = "kind" -> JStr(doc.kind)
      [] OTHER -> JNull

\* One condition of a document filter: {"$in": [...]} or equality
MatchCond(doc, k, v) ==
    IF v.type = "dict" /\ Has(v, "$in")
    THEN DocField(doc, k) \in Range(Get(v, "$in").items)
    ELSE DocField(doc, k) = v

\* A document matches a filter when it meets every condition of it
Matches(doc, q) == \A kv \in q.map : MatchCond(doc, kv[1], kv[2])

\* ParsedInstance.query_mongo_no_paging(query, fields='["_id"]'): the
\* projected records of every matching document
query_mongo_no_paging(docs, query) ==
    LET ids == {d._id : d \in {d \in docs : Matches(d, query)}}
    IN  [i \in 1..Cardinality(ids) |-> JInt(SortedSeq(ids)[i])]

\* Rows of the relational store selected by Instance.objects.filter(**q)
RowMatches(row, q) ==
    /\ Has(q, "xform_id") => row.xform_id = Get(q, "xform_id").n
    /\ Has(q, "id__in") => JInt(row.id) \in Range(Get(q, "id__in").items)

(***************************************************************************)
(* DataViewSet.__build_db_queries(xform_, request_data), with the document *)
(* store it queries.  The result carries the exception raised ("none" when *)
(* it returns), the two filters, and request_data as the call leaves it.   *)
(***************************************************************************)
ConflictingSelection == "ValidationError: query and instance_ids can't be used together"

InvalidQuery == "ValidationError: Invalid query"

InvalidIds == "ValidationError: Invalid submission ids"

NoConfirmationProvided == "NoConfirmationProvidedException"

TypeError == "TypeError"

NoFilter == JDict({})

Raised(exc, request_data) ==
    [error |-> exc, postgres_query |-> NoFilter, mongo_query |-> NoFilter,
     request_data |-> request_data]

\* (the payload taken as it is: empty values are kept)
KeepEmpty(request_data) == request_data

\* payload = {key_: value_ for key_, value_ in request_data.items() if value_}
StripEmpty(request_data) == JDict({kv \in request_data.map : Truthy(kv[2])})

\* (confirm counted among the selectors: any two of the three conflict)
AnyTwoSelectors(payload) ==
    Cardinality(Keys(payload) \cap {"query", "submission_ids", "confirm"}) >= 2

\* all(key_ in payload for key_ in ('query', 'submission_ids'))
BothSelectors(payload) == Has(payload, "query") /\ Has(payload, "submission_ids")

\* (only a string refused: a list or a number taken as a query)
QueryIsNoString(query) == query.type # "str"

\* query.update(mongo_query) on the payload's query: AttributeError unless a dict
QueryHasUpdate(query) == query.type = "dict"

\* (mongo_query.update(query): the user's keys override the base query's)
MergeScopeReversed(query, mongo_query) == DictUpdate(mongo_query, query)

\* query.update(mongo_query): the base query overrides the keys it shares
MergeScope(query, mongo_query) == DictUpdate(query, mongo_query)

\* (a truth test in place of the identity test)
ConfirmedTruthy(payload) == Has(payload, "confirm")

\* payload.get('confirm', False) is True
Confirmed(payload) ==
    /\ Has(payload, "confirm")
    /\ Get(payload, "confirm") = JBool(TRUE)

\* (the ids in place of the form's filter, instead of added to it)
NarrowIdsOnly(payload, request_data, has_ids, instance_ids, postgres_query, mongo_query) ==
    IF has_ids
    THEN [error |-> "none",
          postgres_query |-> JDict({ <<"id__in", JList(instance_ids)>> }),
          mongo_query |-> JDict({ <<"_id", JDict({ <<"$in", JList(instance_ids)>> })>> }),
          request_data |-> request_data]
    ELSE IF ~Confirmed(payload)
    THEN Raised(NoConfirmationProvided, request_data)
    ELSE [error |-> "none", postgres_query |-> postgres_query,
          mongo_query |-> mongo_query, request_data |-> request_data]

\* (the document filter left as the base query: the ids are not added)
NarrowRelationalOnly(payload, request_data, has_ids, instance_ids, postgres_query, mongo_query) ==
    IF has_ids
    THEN [error |-> "none",
          postgres_query |-> DictUpdate(postgres_query,
                                JDict({ <<"id__in", JList(instance_ids)>> })),
          mongo_query |-> mongo_query,
          request_data |-> request_data]
    ELSE IF ~Confirmed(payload)
    THEN Raised(NoConfirmationProvided, request_data)
    ELSE [error |-> "none", postgres_query |-> postgres_query,
          mongo_query |-> mongo_query, request_data |-> request_data]

\* lines 804-813: narrow both filters by the ids, or require the confirmation
Narrow(payload, request_data, has_ids, instance_ids, postgres_query, mongo_query) ==
    IF has_ids
    THEN [error |-> "none",
          postgres_query |-> DictUpdate(postgres_query,
                                JDict({ <<"id__in", JList(instance_ids)>> })),
          mongo_query |-> DictUpdate(mongo_query,
                             JDict({ <<"_id", JDict({ <<"$in", JList(instance_ids)>> })>> })),
          request_data |-> request_data]
    ELSE IF ~Confirmed(payload)
    THEN Raised(NoConfirmationProvided, request_data)
    ELSE [error |-> "none", postgres_query |-> postgres_query,
          mongo_query |-> mongo_query, request_data |-> request_data]

\* First scenario (lines 765-785): ids of the documents the user's query
\* matches.  [error, has_ids, instance_ids, request_data]
QueryScenario(payload, mongo_query, request_data, docs) ==
    IF ~Has(payload, "query")
    THEN [error |-> "none", has_ids |-> FALSE, instance_ids |-> <<>>,
          request_data |-> request_data]
    ELSE LET query == Get(payload, "query") IN
         IF ~QueryHasUpdate(query)
         THEN [error |-> InvalidQuery, has_ids |-> FALSE, instance_ids |-> <<>>,
               request_data |-> request_data]
         ELSE LET merged == MergeScope(query, mongo_query) IN
              [error |-> "none", has_ids |-> TRUE,
               instance_ids |-> query_mongo_no_paging(docs, merged),
               \* the dict updated in place is the one request_data holds
               request_data |-> DictUpdate(request_data, JDict({ <<"query", merged>> }))]

\* Second scenario (lines 787-802): the list of ids of the payload
IdsScenario(payload, first) ==
    IF ~Has(payload, "submission_ids") THEN first
    ELSE LET it == PyIter(Get(payload, "submission_ids"))
             ints == IntList(it.items)
             exc == IF it.exc # "none" THEN it.exc ELSE ints.exc
         IN  IF exc = "none"
             THEN [first EXCEPT !.has_ids = TRUE, !.instance_ids = ints.items]
             ELSE [first EXCEPT !.error = IF exc = "ValueError" THEN InvalidIds ELSE exc]

build_db_queries(xform_, request_data, docs) ==
    LET mongo_query == get_base_query(xform_.username, xform_.id_string)
        postgres_query == JDict({ <<"xform_id", JInt(xform_.id)>> })
        payload == StripEmpty(request_data)
    IN
    IF BothSelectors(payload) THEN Raised(ConflictingSelection, request_data)
    ELSE LET first == QueryScenario(payload, mongo_query, request_data, docs) IN
         IF first.error # "none" THEN Raised(first.error, first.request_data)
         ELSE LET second == IdsScenario(payload, first) IN
              IF second.error # "none" THEN Raised(second.error, second.request_data)
              ELSE Narrow(payload, second.request_data, second.has_ids,
                          second.instance_ids, postgres_query, mongo_query)

(***************************************************************************)
(* The payloads of the requests.                                           *)
(***************************************************************************)
NumSubmissions == 5

SubmissionIds == 1..NumSubmissions

\* The last submission belongs to the second form, the others to the first
FormOf(i) == IF i = NumSubmissions THEN 2 ELSE 1

KindOf(i) == IF i % 2 = 1 THEN "monthly" ELSE "weekly"

Scope(xform_) == Get(get_base_query(xform_.username, xform_.id_string), USERFORM_ID)

\* A payload from at most one value per key
MkPayload(query, ids, confirm, uid) ==
    JDict({ <<"query", v>> : v \in query } \cup { <<"submission_ids", v>> : v \in ids }
          \cup { <<"confirm", v>> : v \in confirm }
          \cup { <<"validation_status.uid", v>> : v \in uid })

QueryValues ==
    { JDict({}),
      JDict({ <<"kind", JStr("monthly")>> }),
      JDict({ <<USERFORM_ID, Scope(XFormById(2))>> }),
      JDict({ <<USERFORM_ID, Scope(XFormById(2))>>, <<"kind", JStr("monthly")>> }),
      JStr("kind"), JList(<< JStr("kind") >>), JInt(1), JList(<<>>), JNull }

IdsValues ==
    { JList(<<>>),
      JList(<< JInt(2), JInt(3) >>), JList(<< JInt(3), JInt(2) >>),
      JList(<< JStr("2"), JInt(3) >>),
      JList(<< JInt(1), JInt(NumSubmissions) >>),
      JList(<< JInt(2), JStr("x") >>),
      JList(<< JInt(2), JNull >>),
      JList(<< JStr("x"), JNull >>),
      JList(<< JInt(NumSubmissions + 1) >>),
      JStr("3"), JNull }

ConfirmValues == { JBool(TRUE), JBool(FALSE), JInt(1), JStr("true") }

Option(S) == { {} } \cup { {v} : v \in S }

\* Every payload of the resolver's universe
AllPayloads ==
    { MkPayload(q, i, c, {}) :
        q \in Option(QueryValues), i \in Option(IdsValues), c \in Option(ConfirmValues) }

\* The payloads the concurrent requests draw from
BulkPayloads ==
    { MkPayload({}, {JList(<< JInt(2), JInt(3) >>)}, {}, {}),
      MkPayload({}, {JList(<< JInt(1), JInt(NumSubmissions) >>)}, {}, {}),
      MkPayload({JDict({ <<"kind", JStr("monthly")>> })}, {}, {JBool(TRUE)}, {}),
      MkPayload({JDict({ <<USERFORM_ID, Scope(XFormById(2))>> })}, {}, {}, {}),
      MkPayload({}, {}, {JBool(TRUE)}, {}),
      MkPayload({}, {JList(<<>>)}, {JInt(1)}, {}) }

StatusUids == {"validation_status_approved"}

(***************************************************************************)
(* State.                                                                  *)
(***************************************************************************)
VARIABLES
    Instance,            \* relational store: rows of logger.Instance
    mongo,               \* document store: the submissions' documents
    num_of_submissions,  \* XForm.num_of_submissions, by form id
    receivers,           \* handlers connected to pre_delete / post_delete
    pc,                  \* each worker's position in its view method
    request,             \* each worker's request: action, kwargs, data
    local,               \* each worker's local variables
    response,            \* each worker's response, once its view has ended
    started,             \* the number of requests received so far
    last,                \* for reference, the bulk delete served last
    XForm,               \* rows of logger.XForm: sharing flags and tags, by form id
                         \* (and, for the management command, owner and storage)
    TaggedItem,          \* the tags of the submissions: pairs <<instance id, name>>
    UserProfile,         \* rows of main.UserProfile, by user id
    Attachment,          \* rows of logger.Attachment
    command              \* update_attachment_storage_bytes: position and locals

vars == <<Instance, mongo, num_of_submissions, receivers, pc, request, local,
          response, started, last, XForm, TaggedItem, UserProfile, Attachment, command>>

\* The shared state: the stores, the counters and the signal registry
shared == <<Instance, mongo, num_of_submissions, receivers>>

\* The tables and the command the data views leave alone
rest == <<TaggedItem, UserProfile, Attachment, command>>

NumWorkers == 2

\* The number of requests a run receives
MaxRequests == 2

Workers == 1..NumWorkers

\* The three handlers bulk_delete disconnects, in the order of lines 407-415
Handlers == << "_remove_from_mongo",
               "nullify_exports_time_of_last_submission",
               "update_xform_submission_count_delete" >>

\* A request: the view's action, its kwargs, request.data, and for reference
\* the payload as it was sent and, when requests are served one at a time,
\* the stores and counters as they were when it was received.  The requests
\* that resolve a form or a submission carry the view's kwargs as the URL
\* gives them (strings), the query parameters, and the forms the permission
\* filters let request.user see
\* (method, label, tags: the HTTP method, kwargs['label'] and the tags of the
\* payload of a request on a submission's labels; tagged: for reference, the
\* tags of the submissions when the request was received)
NoRequest == [action |-> "none", pk |-> 0, dataid |-> 0, data |-> NoFilter,
              sent |-> NoFilter, before |-> <<>>,
              kwargs |-> NoFilter, query_params |-> {}, permitted |-> {},
              method |-> "none", label |-> <<>>, tags |-> {}, tagged |-> {}]

NoRow == [id |-> 0, xform_id |-> 0, validation_status |-> ""]

\* (count_read: the cached count the form's update found; qs: the ids of
\* the forms of a queryset, in its order; xform: the id of the form found)
NoLocal == [postgres_query |-> NoFilter, mongo_query |-> NoFilter, step |-> 0,
            records_count |-> 0, exc |-> "none", new_validation_status |-> "",
            instance |-> NoRow, count_read |-> 0, qs |-> <<>>, xform |-> 0]

NoResponse == [status |-> 0, count |-> 0, exc |-> "none"]

\* The request served last, when requests are served one at a time and it
\* was a bulk delete that succeeded: its form, its payload as sent, and the
\* count it reported
NoLast == [pk |-> 0, sent |-> NoFilter, count |-> 0]

\* A form shared with nobody, without tags
NoSharing == [shared |-> FALSE, shared_data |-> FALSE, tags |-> {}]

Row(i) == [id |-> i, xform_id |-> FormOf(i), validation_status |-> ""]

Doc(i) ==
    [_id |-> i,
     _userform_id |-> Scope(XFormById(FormOf(i))).s,
     kind |-> KindOf(i), validation_status |-> ""]

\* The stores, the counts, the signals and the workers after start-up
InitStores ==
    /\ Instance = {Row(i) : i \in SubmissionIds}
    /\ mongo = {Doc(i) : i \in SubmissionIds}
    /\ num_of_submissions =
         [f \in XFormIds |-> Cardinality({i \in SubmissionIds : FormOf(i) = f})]
    /\ receivers = Range(Handlers)
    /\ pc = [w \in Workers |-> "idle"]
    /\ request = [w \in Workers |-> NoRequest]
    /\ local = [w \in Workers |-> NoLocal]
    /\ response = [w \in Workers |-> NoResponse]
    /\ started = 0
    /\ last = NoLast

\* Python's None where a number is expected
None == -1

\* UserProfile.metadata: NULL, or a document with or without the two keys
\* the command uses ("absent": the document has no such key)
NoMetadata == [null |-> TRUE, submissions_suspended |-> "absent",
               attachments_counting_status |-> "absent"]

EmptyMetadata == [null |-> FALSE, submissions_suspended |-> "absent",
                  attachments_counting_status |-> "absent"]

\* A user without a profile, and the profile get_or_create creates
NoProfile == [exists |-> FALSE, metadata |-> NoMetadata, attachment_storage_bytes |-> 0]

NewProfile == [exists |-> TRUE, metadata |-> EmptyMetadata, attachment_storage_bytes |-> 0]

\* The command's locals before it runs (runs, initial, at_start: for
\* reference, the number of runs started, the tables before the first run
\* and before this run)
NoCommand == [pc |-> "none", total_per_user |-> <<>>, xforms |-> <<>>, i |-> 0,
              last_xform |-> 0, user_profile |-> NoProfile, runs |-> 0,
              initial |-> <<>>, at_start |-> <<>>]

\* No tags on submissions, no profiles, no attachments, no command run
InitRest ==
    /\ TaggedItem = {}
    /\ UserProfile = <<>>
    /\ Attachment = {}
    /\ command = NoCommand

Init ==
    /\ InitStores
    /\ XForm = [f \in XFormIds |-> NoSharing]
    /\ InitRest

(***************************************************************************)
(* Signals and their handlers.                                             *)
(***************************************************************************)
\* Signal.disconnect(receiver): a receiver that is not connected stays so
Disconnect(rs, h) == rs \ {h}

\* Signal.connect(receiver): a receiver is registered once
Connect(rs, h) == rs \cup {h}

\* update_xform_submission_count_delete(instance, value): the cached count
\* less value, never below zero
DecrementCount(n, value) == IF n - value < 0 THEN 0 ELSE n - value

\* _remove_from_mongo(instance): the documents of the rows leave the store
RemoveFromMongo(docs, rows) == {d \in docs : d._id \notin {r.id : r \in rows}}

\* Model.delete() / QuerySet.delete() of rows: pre_delete and post_delete are
\* sent per row to the handlers connected at that moment
DocsAfterDelete(docs, rows, rs) ==
    IF Handlers[1] \in rs THEN RemoveFromMongo(docs, rows) ELSE docs

CountsAfterDelete(counts, rows, rs) ==
    IF Handlers[3] \in rs
    THEN [f \in XFormIds |->
            DecrementCount(counts[f], Cardinality({r \in rows : r.xform_id = f}))]
    ELSE counts

\* ParsedInstance.bulk_delete(query): every matching document is removed
MongoBulkDelete(docs, query) == {d \in docs : ~Matches(d, query)}

\* The rows Instance.objects.filter(**postgres_query) selects
Selected(rows, postgres_query) == {r \in rows : RowMatches(r, postgres_query)}

(***************************************************************************)
(* DataViewSet.bulk_delete                                                 *)
(***************************************************************************)
Goto(w, label) == pc' = [pc EXCEPT ![w] = label]

\* Where control goes when the try block of bulk_delete is left, normally
\* or by an exception: the finally clause
\* (an except clause in place of the finally clause: no restoration when
\* the try block raises)
FinallyOnlyOnSuccess(exc) == IF exc = "none" THEN "bd_connect" ELSE "done"

FinallyLabel(exc) == "bd_connect"

\* Where control goes after the n-th connect of the finally clause
AfterConnect(n) == IF n < Len(Handlers) THEN "bd_connect" ELSE "done"

\* Where control goes after the n-th disconnect
AfterDisconnect(n) == IF n < Len(Handlers) THEN "bd_disconnect" ELSE "bd_postgres"

\* No other worker is serving a request
Alone(w) == \A v \in Workers \ {w} : pc[v] = "idle"

\* A worker receives a request; when requests are served one at a time
\* (serial), only while no other request is being served
Receive(w, req, label, serial) ==
    /\ pc[w] = "idle"
    /\ serial => Alone(w)
    /\ started < MaxRequests
    /\ started' = started + 1
    /\ request' = [request EXCEPT ![w] =
                      [action |-> req.action, pk |-> req.pk, dataid |-> req.dataid,
                       data |-> req.data, sent |-> req.data,
                       before |-> IF serial THEN <<Instance, mongo, num_of_submissions>>
                                  ELSE <<>>,
                       kwargs |-> IF "kwargs" \in DOMAIN req THEN req.kwargs ELSE NoFilter,
                       query_params |-> IF "query_params" \in DOMAIN req
                                        THEN req.query_params ELSE {},
                       permitted |-> IF "permitted" \in DOMAIN req
                                     THEN req.permitted ELSE {},
                       method |-> IF "method" \in DOMAIN req THEN req.method ELSE "none",
                       label |-> IF "label" \in DOMAIN req THEN req.label ELSE <<>>,
                       tags |-> IF "tags" \in DOMAIN req THEN req.tags ELSE {},
                       tagged |-> IF serial THEN TaggedItem ELSE {}]]
    /\ Goto(w, label)
    /\ UNCHANGED <<local, response, shared, last, XForm, rest>>

StartBulkDelete(w, forms, payloads, serial) ==
    \E pk \in forms, data \in payloads :
        Receive(w, [action |-> "bulk_delete", pk |-> pk, dataid |-> 0, data |-> data],
                "bd_build", serial)

\* The HTTP status of an exception that leaves the view: 400 for the
\* framework's API exceptions, 500 for any other
StatusOf(exc) ==
    IF exc \in {ConflictingSelection, InvalidQuery, InvalidIds, NoConfirmationProvided}
    THEN 400 ELSE 500

\* lines 403-404: get_object and __build_db_queries; a failure is the response
BulkDeleteBuild(w) ==
    /\ pc[w] = "bd_build"
    /\ LET r == build_db_queries(XFormById(request[w].pk), request[w].data, mongo) IN
       /\ request' = [request EXCEPT ![w].data = r.request_data]
       /\ IF r.error # "none"
          THEN /\ response' = [response EXCEPT ![w] = [status |-> StatusOf(r.error), count |-> 0, exc |-> r.error]]
               /\ local' = local
               /\ Goto(w, "done")
          ELSE /\ local' = [local EXCEPT ![w].postgres_query = r.postgres_query,
                                         ![w].mongo_query = r.mongo_query,
                                         ![w].step = 1]
               /\ response' = response
               /\ Goto(w, "bd_disconnect")
    /\ UNCHANGED <<shared, started, last, XForm, rest>>

\* lines 407-415: the three disconnects, one call at a time; local.step
\* numbers the call that comes next
BulkDeleteDisconnect(w) ==
    /\ pc[w] = "bd_disconnect"
    /\ receivers' = Disconnect(receivers, Handlers[local[w].step])
    /\ local' = [local EXCEPT ![w].step = (local[w].step % Len(Handlers)) + 1]
    /\ Goto(w, AfterDisconnect(local[w].step))
    /\ UNCHANGED <<Instance, mongo, num_of_submissions, request, response, started, last, XForm, rest>>

\* lines 419-427: results[identifier], the number of Instance rows deleted
\* (0 when the deletion reports none)
\* (all_count in place of results[identifier]: the cascaded ParsedInstance
\* rows are counted too)
DeletedAllCount(deleted) == 2 * Cardinality(deleted)

\* (the KeyError branch counting one record where none was deleted)
DeletedAtLeastOne(deleted) == IF deleted = {} THEN 1 ELSE Cardinality(deleted)

DeletedRecordsCount(deleted) == Cardinality(deleted)

\* line 419: the relational deletion, or the store's failure
BulkDeletePostgres(w) ==
    /\ pc[w] = "bd_postgres"
    /\ \/ LET deleted == Selected(Instance, local[w].postgres_query) IN
          /\ Instance' = Instance \ deleted
          /\ mongo' = DocsAfterDelete(mongo, deleted, receivers)
          /\ num_of_submissions' = CountsAfterDelete(num_of_submissions, deleted, receivers)
          /\ local' = [local EXCEPT ![w].records_count = DeletedRecordsCount(deleted)]
          /\ Goto(w, "bd_mongo")
       \/ /\ local' = [local EXCEPT ![w].exc = "DatabaseError"]
          /\ Goto(w, FinallyLabel("DatabaseError"))
          /\ UNCHANGED <<Instance, mongo, num_of_submissions>>
    /\ UNCHANGED <<receivers, request, response, started, last, XForm, rest>>

\* line 429: the document deletion, or the store's failure
BulkDeleteMongo(w) ==
    /\ pc[w] = "bd_mongo"
    /\ \/ /\ mongo' = MongoBulkDelete(mongo, local[w].mongo_query)
          /\ Goto(w, "bd_update")
          /\ local' = local
       \/ /\ local' = [local EXCEPT ![w].exc = "PyMongoError"]
          /\ Goto(w, FinallyLabel("PyMongoError"))
          /\ mongo' = mongo
    /\ UNCHANGED <<Instance, num_of_submissions, receivers, request, response, started, last, XForm, rest>>

\* (the view subtracting the count itself instead of calling the handler)
UpdateXFormInline(n, value) == n - value

\* lines 433-436: the count handler called with the form and the number of
\* records deleted
UpdateXFormLikeSignals(n, value) == DecrementCount(n, value)

\* lines 432-436: the form's update, as the signals would have done it
BulkDeleteUpdate(w) ==
    /\ pc[w] = "bd_update"
    /\ \/ /\ num_of_submissions' =
               [num_of_submissions EXCEPT ![request[w].pk] =
                   UpdateXFormLikeSignals(@, local[w].records_count)]
          /\ local' = [local EXCEPT ![w].count_read = num_of_submissions[request[w].pk]]
          /\ Goto(w, FinallyLabel("none"))
       \/ /\ local' = [local EXCEPT ![w].exc = "DatabaseError"]
          /\ Goto(w, FinallyLabel("DatabaseError"))
          /\ num_of_submissions' = num_of_submissions
    /\ UNCHANGED <<Instance, mongo, receivers, request, response, started, last, XForm, rest>>

\* (the exception swallowed: the success response whatever the try block did)
BulkDeleteResponseAlways(l) ==
    [status |-> 200, count |-> l.records_count, exc |-> "none"]

\* The response of bulk_delete once the finally clause has run
BulkDeleteResponse(l) ==
    IF l.exc = "none"
    THEN [status |-> 200, count |-> l.records_count, exc |-> "none"]
    ELSE [status |-> 500, count |-> 0, exc |-> l.exc]

\* lines 437-454: the three connects of the finally clause, one call at a
\* time, then the response or the exception
BulkDeleteConnect(w) ==
    /\ pc[w] = "bd_connect"
    /\ receivers' = Connect(receivers, Handlers[local[w].step])
    /\ local' = [local EXCEPT ![w].step = (local[w].step % Len(Handlers)) + 1]
    /\ response' = [response EXCEPT ![w] =
                       IF local[w].step < Len(Handlers) THEN @
                       ELSE BulkDeleteResponse(local[w])]
    /\ Goto(w, AfterConnect(local[w].step))
    /\ UNCHANGED <<Instance, mongo, num_of_submissions, request, started, last, XForm, rest>>

\* The worker takes its next request
Finish(w) ==
    /\ pc[w] = "done"
    /\ Goto(w, "idle")
    /\ request' = [request EXCEPT ![w] = NoRequest]
    /\ local' = [local EXCEPT ![w] = NoLocal]
    /\ response' = [response EXCEPT ![w] = NoResponse]
    /\ last' = IF request[w].before # <<>> /\ request[w].action = "bulk_delete"
                  /\ response[w].status = 200
               THEN [pk |-> request[w].pk, sent |-> request[w].sent,
                     count |-> response[w].count]
               ELSE NoLast
    /\ UNCHANGED <<shared, started, XForm, rest>>

(***************************************************************************)
(* DataViewSet.bulk_validation_status                                      *)
(***************************************************************************)
UID_KEY == "validation_status.uid"

NoUidProvided == "ValidationError: No validation_status.uid provided"

\* The payload with the uid of the new status
WithUid(data, uid) == DictUpdate(data, JDict({ <<UID_KEY, JStr(uid)>> }))

StartBulkValidationStatus(w, forms, payloads, serial) ==
    \E pk \in forms, data \in payloads \cup {WithUid(d, u) : d \in payloads, u \in StatusUids} :
        Receive(w, [action |-> "bulk_validation_status", pk |-> pk, dataid |-> 0,
                    data |-> data],
                "bvs_build", serial)

\* get_validation_status(uid, xform, username): the status recorded inline
get_validation_status(uid) == uid.s

\* lines 458-474: the uid of the payload, then __build_db_queries
BulkValidationStatusBuild(w) ==
    /\ pc[w] = "bvs_build"
    /\ IF ~Has(request[w].data, UID_KEY)
       THEN /\ response' = [response EXCEPT ![w] =
                               [status |-> 400, count |-> 0, exc |-> NoUidProvided]]
            /\ UNCHANGED <<request, local>>
            /\ Goto(w, "done")
       ELSE LET r == build_db_queries(XFormById(request[w].pk), request[w].data, mongo) IN
            /\ request' = [request EXCEPT ![w].data = r.request_data]
            /\ IF r.error # "none"
               THEN /\ response' = [response EXCEPT ![w] =
                                       [status |-> StatusOf(r.error), count |-> 0, exc |-> r.error]]
                    /\ local' = local
                    /\ Goto(w, "done")
               ELSE /\ local' = [local EXCEPT
                                   ![w].postgres_query = r.postgres_query,
                                   ![w].mongo_query = r.mongo_query,
                                   ![w].new_validation_status =
                                       get_validation_status(Get(request[w].data, UID_KEY))]
                    /\ response' = response
                    /\ Goto(w, "bvs_postgres")
    /\ UNCHANGED <<shared, started, last, XForm, rest>>

\* (the update without its filter: every row takes the status)
RowsUpdatedAll(rows, postgres_query, status) ==
    {[r EXCEPT !.validation_status = status] : r \in rows}

\* QuerySet.update(validation_status=...): the selected rows with the status
RowsUpdated(rows, postgres_query, status) ==
    {IF RowMatches(r, postgres_query) THEN [r EXCEPT !.validation_status = status] ELSE r :
        r \in rows}

\* ParsedInstance.bulk_update_validation_statuses(query, validation_status)
DocsUpdated(docs, query, status) ==
    {IF Matches(d, query) THEN [d EXCEPT !.validation_status = status] ELSE d : d \in docs}

\* lines 477-479: the relational update, or the store's failure
BulkValidationStatusPostgres(w) ==
    /\ pc[w] = "bvs_postgres"
    /\ \/ /\ Instance' = RowsUpdated(Instance, local[w].postgres_query,
                                     local[w].new_validation_status)
          /\ local' = [local EXCEPT ![w].records_count =
                          Cardinality(Selected(Instance, local[w].postgres_query))]
          /\ response' = response
          /\ Goto(w, "bvs_mongo")
       \/ /\ response' = [response EXCEPT ![w] =
                             [status |-> 500, count |-> 0, exc |-> "DatabaseError"]]
          /\ UNCHANGED <<Instance, local>>
          /\ Goto(w, "done")
    /\ UNCHANGED <<mongo, num_of_submissions, receivers, request, started, last, XForm, rest>>

\* lines 480-485: the document update and the response, or the store's failure
BulkValidationStatusMongo(w) ==
    /\ pc[w] = "bvs_mongo"
    /\ \/ /\ mongo' = DocsUpdated(mongo, local[w].mongo_query,
                                  local[w].new_validation_status)
          /\ response' = [response EXCEPT ![w] =
                             [status |-> 200, count |-> local[w].records_count,
                              exc |-> "none"]]
       \/ /\ response' = [response EXCEPT ![w] =
                             [status |-> 500, count |-> 0, exc |-> "PyMongoError"]]
          /\ mongo' = mongo
    /\ Goto(w, "done")
    /\ UNCHANGED <<Instance, num_of_submissions, receivers, request, local, started, last, XForm, rest>>

(***************************************************************************)
(* DataViewSet.destroy                                                     *)
(***************************************************************************)
\* kwargs without a dataid
NoDataId == 0

StartDestroy(w, forms, ids, serial) ==
    \E pk \in forms, dataid \in ids \cup {NoDataId} :
        Receive(w, [action |-> "destroy", pk |-> pk, dataid |-> dataid, data |-> NoFilter],
                "ds_get", serial)

\* (the submission looked up by its id alone, whatever its form)
get_object_of_any_form(pk, dataid, rows) ==
    IF dataid = NoDataId THEN [exc |-> "none", kind |-> "XForm", instance |-> NoRow]
    ELSE LET found == {r \in rows : r.id = dataid} IN
         IF found = {} THEN [exc |-> "Http404", kind |-> "none", instance |-> NoRow]
         ELSE [exc |-> "none", kind |-> "Instance", instance |-> CHOOSE r \in found : TRUE]

\* DataViewSet.get_object: the form, or the submission of that form
get_object(pk, dataid, rows) ==
    IF dataid = NoDataId THEN [exc |-> "none", kind |-> "XForm", instance |-> NoRow]
    ELSE LET found == {r \in rows : r.id = dataid /\ r.xform_id = pk} IN
         IF found = {} THEN [exc |-> "Http404", kind |-> "none", instance |-> NoRow]
         ELSE [exc |-> "none", kind |-> "Instance", instance |-> CHOOSE r \in found : TRUE]

\* (no test of what get_object returned)
IsXFormNever(instance) == FALSE

\* line 696: isinstance(instance, XForm)
IsXForm(instance) == instance.kind = "XForm"

\* lines 695-697: get_object; a form in place of a submission is an error
DestroyGet(w) ==
    /\ pc[w] = "ds_get"
    /\ LET o == get_object(request[w].pk, request[w].dataid, Instance) IN
       IF o.exc # "none"
       THEN /\ response' = [response EXCEPT ![w] = [status |-> 404, count |-> 0, exc |-> o.exc]]
            /\ local' = local
            /\ Goto(w, "done")
       ELSE IF IsXForm(o)
       THEN /\ response' = [response EXCEPT ![w] =
                               [status |-> 400, count |-> 0,
                                exc |-> "ParseError: Data id not provided"]]
            /\ local' = local
            /\ Goto(w, "done")
       ELSE /\ local' = [local EXCEPT ![w].instance = o.instance]
            /\ response' = response
            /\ Goto(w, "ds_pre_delete")
    /\ UNCHANGED <<shared, request, started, last, XForm, rest>>

\* line 699, instance.delete(): pre_delete is sent for the parsed instance
DestroyPreDelete(w) ==
    /\ pc[w] = "ds_pre_delete"
    /\ mongo' = DocsAfterDelete(mongo, {local[w].instance}, receivers)
    /\ Goto(w, "ds_delete")
    /\ UNCHANGED <<Instance, num_of_submissions, receivers, request, local, response,
                   started, last, XForm, rest>>

\* lines 699-701: the row is deleted, post_delete is sent, and the response
DestroyDelete(w) ==
    /\ pc[w] = "ds_delete"
    /\ Instance' = {r \in Instance : r.id # local[w].instance.id}
    /\ num_of_submissions' = CountsAfterDelete(num_of_submissions, {local[w].instance},
                                               receivers)
    /\ response' = [response EXCEPT ![w] = [status |-> 204, count |-> 0, exc |-> "none"]]
    /\ Goto(w, "done")
    /\ UNCHANGED <<mongo, receivers, request, local, started, last, XForm, rest>>

(***************************************************************************)
(* DataViewSet.labels: the tags of a submission (or of a form, when the    *)
(* kwargs name no submission).  A tag's name is the sequence of its        *)
(* characters; kwargs without a label have the empty name.                 *)
(***************************************************************************)
NoLabel == <<>>

\* The submissions the requests on labels name: one of each form, and an
\* id no submission has
LabelIds == {2, NumSubmissions, NumSubmissions + 1}

StartLabels(w, serial) ==
    \E pk \in XFormIds, dataid \in LabelIds \cup {NoDataId},
       method \in {"GET", "POST", "DELETE"},
       label \in { <<"a">>, <<"b">>, <<"c">>, NoLabel }, tags \in SUBSET {<<"a">>, <<"c">>} :
        /\ method = "POST" <=> tags # {}
        /\ Receive(w, [action |-> "labels", pk |-> pk, dataid |-> dataid,
                       data |-> NoFilter, method |-> method, label |-> label,
                       tags |-> tags],
                   "lb_get", serial)

\* line 597: get_object
LabelsGet(w) ==
    /\ pc[w] = "lb_get"
    /\ LET o == get_object(request[w].pk, request[w].dataid, Instance) IN
       IF o.exc # "none"
       THEN /\ response' = [response EXCEPT ![w] = [status |-> 404, count |-> 0, exc |-> o.exc]]
            /\ local' = local
            /\ Goto(w, "done")
       ELSE /\ local' = [local EXCEPT ![w].instance = o.instance]
            /\ response' = response
            /\ Goto(w, "lb_tags")
    /\ UNCHANGED <<shared, request, started, last, XForm, rest>>

\* instance.tags: the names of the tags of the object get_object returned
TagNames(instance, pk, tagged, table) ==
    IF instance = NoRow THEN table[pk].tags
    ELSE {t[2] : t \in {x \in tagged : x[1] = instance.id}}

\* tags.remove(label)
TagsRemove(names, label) == names \ {label}

\* lines 615-616: count == tags.count() after the removal
LabelsDeleteStatus(count, names) == IF count = Cardinality(names) THEN 200 ELSE 404

\* lines 596-625 after get_object: the status for the method and the label,
\* and the names the object carries afterwards (add_tags_to_instance adds
\* the names of the payload to the object, or fails)
labels(method, label, tags, added, names) ==
    LET posted == IF method = "POST" /\ added THEN names \cup tags ELSE names
        created == IF method = "POST" /\ added THEN 201 ELSE 400
    IN  IF method = "GET" /\ label # NoLabel
        THEN [status |-> 200, names |-> posted, data |-> posted \cap {label}]
        ELSE IF method = "DELETE" /\ label # NoLabel
        THEN [status |-> LabelsDeleteStatus(Cardinality(posted), TagsRemove(posted, label)),
              names |-> TagsRemove(posted, label), data |-> TagsRemove(posted, label)]
        ELSE [status |-> IF method = "GET" THEN 200 ELSE created,
              names |-> posted, data |-> posted]

\* lines 599-625: the tags are read, added or removed, and the response
LabelsTags(w) ==
    /\ pc[w] = "lb_tags"
    /\ \E added \in BOOLEAN :
         LET i == local[w].instance
             r == labels(request[w].method, request[w].label, request[w].tags, added,
                         TagNames(i, request[w].pk, TaggedItem, XForm))
         IN  /\ request[w].method # "POST" => added
             /\ TaggedItem' = IF i = NoRow THEN TaggedItem
                              ELSE {x \in TaggedItem : x[1] # i.id}
                                      \cup {<<i.id, n>> : n \in r.names}
             /\ XForm' = IF i = NoRow THEN [XForm EXCEPT ![request[w].pk].tags = r.names]
                         ELSE XForm
             /\ response' = [response EXCEPT ![w] =
                                [status |-> r.status, count |-> 0, exc |-> "none",
                                 data |-> r.data]]
    /\ Goto(w, "done")
    /\ UNCHANGED <<shared, request, local, started, last, UserProfile, Attachment, command>>

(***************************************************************************)
(* DataViewSet.filter_queryset, _filtered_or_shared_qs and get_object: the *)
(* forms, the form or the submission a request names.  A query parameter   *)
(* is the sequence of its characters, a tag's name too; a queryset of      *)
(* forms is the sequence of the ids of its rows.                           *)
(***************************************************************************)
ParseErrorPk == "ParseError: Invalid pk"

ParseErrorDataId == "ParseError: Invalid dataid"

Http404 == "Http404"

MultipleObjectsReturned == "MultipleObjectsReturned"

\* request.query_params.get(name, None): [given, chars]
HasParam(query_params, name) == \E kv \in query_params : kv[1] = name

GetParam(query_params, name) == (CHOOSE kv \in query_params : kv[1] = name)[2]

\* str.split(sep): the pieces between the separators
RECURSIVE Split(_, _)
Split(chars, sep) ==
    IF \A i \in 1..Len(chars) : chars[i] # sep THEN << chars >>
    ELSE LET k == CHOOSE i \in 1..Len(chars) :
                     chars[i] = sep /\ \A j \in 1..(i - 1) : chars[j] # sep
         IN  << SubSeq(chars, 1, k - 1) >> \o Split(SubSeq(chars, k + 1, Len(chars)), sep)

RECURSIVE Repeat(_, _)
Repeat(x, n) == IF n = 0 THEN <<>> ELSE <<x>> \o Repeat(x, n - 1)

\* qs.filter(tags__name__in=tags): the join with the tags yields a form once
\* for each of its tags that the list names
RECURSIVE TagsFilter(_, _, _)
TagsFilter(qs, tags, table) ==
    IF qs = <<>> THEN <<>>
    ELSE Repeat(Head(qs), Cardinality(table[Head(qs)].tags \cap Range(tags)))
         \o TagsFilter(Tail(qs), tags, table)

\* QuerySet.distinct()
RECURSIVE Distinct(_)
Distinct(qs) ==
    IF qs = <<>> THEN <<>>
    ELSE <<Head(qs)>> \o Distinct(SelectSeq(Tail(qs), LAMBDA f : f # Head(qs)))

\* qs.filter(pk=pk)
PkFilter(qs, pk) == SelectSeq(qs, LAMBDA f : f = PyInt(pk).n)

\* lines 533-534: XForm.objects.filter(pk=pk, shared_data=True)
SharedData(table, pk) ==
    {f \in DOMAIN table : f = PyInt(pk).n /\ table[f].shared_data}

\* lines 528-538: [exc, qs]
filtered_or_shared_qs(qs, pk, table) ==
    IF PkFilter(qs, pk) # <<>> THEN [exc |-> "none", qs |-> PkFilter(qs, pk)]
    ELSE IF SharedData(table, pk) # {}
    THEN [exc |-> "none", qs |-> SortedSeq(SharedData(table, pk))]
    ELSE [exc |-> Http404, qs |-> <<>>]

\* super().filter_queryset(queryset): the forms the filter backends leave to
\* request.user
PermittedForms(permitted) == SortedSeq(permitted)

\* lines 543-547: the forms narrowed by the tags parameter
TagsNarrowed(qs, query_params, table) ==
    IF HasParam(query_params, "tags") /\ GetParam(query_params, "tags") # <<>>
    THEN Distinct(TagsFilter(qs, Split(GetParam(query_params, "tags"), ","), table))
    ELSE qs

\* lines 540-557: [exc, qs]
filter_queryset(permitted, kwargs, query_params, table) ==
    LET qs == TagsNarrowed(PermittedForms(permitted), query_params, table) IN
    IF ~Has(kwargs, "pk") \/ ~Truthy(Get(kwargs, "pk")) THEN [exc |-> "none", qs |-> qs]
    ELSE IF PyInt(Get(kwargs, "pk")).exc = "ValueError" THEN [exc |-> ParseErrorPk, qs |-> <<>>]
    ELSE filtered_or_shared_qs(qs, Get(kwargs, "pk"), table)

\* GenericAPIView.get_object: get_object_or_404(queryset, pk=pk) on the
\* filtered queryset.  [exc, xform]
get_xform(qs, pk) ==
    IF PkFilter(qs, pk) = <<>> THEN [exc |-> Http404, xform |-> 0]
    ELSE IF Len(PkFilter(qs, pk)) > 1 THEN [exc |-> MultipleObjectsReturned, xform |-> 0]
    ELSE [exc |-> "none", xform |-> PkFilter(qs, pk)[1]]

\* lines 506-523, with kwargs as the URL gives them
get_object_from_kwargs(kwargs, rows) ==
    IF ~Has(kwargs, "pk") \/ ~Has(kwargs, "dataid")
    THEN get_object(0, NoDataId, rows)
    ELSE IF PyInt(Get(kwargs, "pk")).exc = "ValueError"
    THEN [exc |-> ParseErrorPk, kind |-> "none", instance |-> NoRow]
    ELSE IF PyInt(Get(kwargs, "dataid")).exc = "ValueError"
    THEN [exc |-> ParseErrorDataId, kind |-> "none", instance |-> NoRow]
    ELSE get_object(PyInt(Get(kwargs, "pk")).n, PyInt(Get(kwargs, "dataid")).n, rows)

\* The kwargs of the URLs: no pk (the list of forms), a pk, a pk and a dataid
MkKwargs(pk, dataid) ==
    JDict({ <<"pk", v>> : v \in pk } \cup { <<"dataid", v>> : v \in dataid })

PkValues == { JStr("1"), JStr("2"), JStr("6"), JStr("x") }

DataIdValues == { JStr("2"), JStr("5"), JStr("6"), JStr("x") }

LookupKwargs ==
    { MkKwargs({}, {}) } \cup { MkKwargs({p}, d) : p \in PkValues, d \in Option(DataIdValues) }

\* The tags parameter: absent, empty, "a", "a,b", "c"
LookupParams ==
    { {} } \cup { { <<"tags", t>> } : t \in { <<>>, <<"a">>, <<"a", ",", "b">>, <<"c">> } }

\* The rows of XForm: the flags, and the names of the tags
Sharings ==
    [shared : BOOLEAN, shared_data : BOOLEAN,
     tags : { {}, { <<"a">>, <<"b">> } }]

StatusOfLookup(exc) ==
    IF exc \in {ParseErrorPk, ParseErrorDataId} THEN 400
    ELSE IF exc = Http404 THEN 404 ELSE 500

\* list (no dataid) or retrieve (a dataid) is requested
StartLookup(w, serial) ==
    \E kwargs \in LookupKwargs, query_params \in LookupParams, permitted \in SUBSET XFormIds :
        Receive(w, [action |-> IF Has(kwargs, "dataid") THEN "retrieve" ELSE "list",
                    pk |-> 0, dataid |-> 0, data |-> NoFilter, kwargs |-> kwargs,
                    query_params |-> query_params, permitted |-> permitted],
                "lk_filter", serial)

\* line 708, or line 505 and GenericAPIView.get_object:
\* self.filter_queryset(self.get_queryset()); without a pk, the list's response
LookupFilter(w) ==
    /\ pc[w] = "lk_filter"
    /\ LET r == filter_queryset(request[w].permitted, request[w].kwargs,
                                request[w].query_params, XForm) IN
       IF r.exc # "none"
       THEN /\ response' = [response EXCEPT ![w] =
                               [status |-> StatusOfLookup(r.exc), count |-> 0, exc |-> r.exc]]
            /\ local' = local
            /\ Goto(w, "done")
       ELSE IF ~Has(request[w].kwargs, "pk")
       THEN /\ response' = [response EXCEPT ![w] =
                               [status |-> 200, count |-> Len(r.qs), exc |-> "none"]]
            /\ local' = [local EXCEPT ![w].qs = r.qs]
            /\ Goto(w, "done")
       ELSE /\ local' = [local EXCEPT ![w].qs = r.qs]
            /\ response' = response
            /\ Goto(w, "lk_get")
    /\ UNCHANGED <<shared, request, started, last, XForm, rest>>

\* lines 505-523: the form of the queryset, then the submission when the
\* kwargs name one
LookupGet(w) ==
    /\ pc[w] = "lk_get"
    /\ LET x == get_xform(local[w].qs, Get(request[w].kwargs, "pk"))
           o == get_object_from_kwargs(request[w].kwargs, Instance)
           exc == IF x.exc # "none" THEN x.exc ELSE o.exc
       IN  /\ response' = [response EXCEPT ![w] =
                              IF exc # "none"
                              THEN [status |-> StatusOfLookup(exc), count |-> 0, exc |-> exc]
                              ELSE [status |-> 200, count |-> 1, exc |-> "none"]]
           /\ local' = [local EXCEPT ![w].xform = IF exc = "none" THEN x.xform ELSE 0,
                                     ![w].instance = IF exc = "none" THEN o.instance ELSE NoRow]
    /\ Goto(w, "done")
    /\ UNCHANGED <<shared, request, started, last, XForm, rest>>

\* The payloads of the requests that run concurrently
ConcurrentPayloads ==
    { MkPayload({}, {JList(<< JInt(2), JInt(3) >>)}, {}, {}),
      MkPayload({}, {}, {JBool(TRUE)}, {}) }

\* The submissions the concurrent destroy requests name
ConcurrentIds == {2}

BulkDeleteStep(w) ==
    \/ BulkDeleteBuild(w)
    \/ BulkDeleteDisconnect(w)
    \/ BulkDeletePostgres(w)
    \/ BulkDeleteMongo(w)
    \/ BulkDeleteUpdate(w)
    \/ BulkDeleteConnect(w)

BulkValidationStatusStep(w) ==
    \/ BulkValidationStatusBuild(w)
    \/ BulkValidationStatusPostgres(w)
    \/ BulkValidationStatusMongo(w)

DestroyStep(w) ==
    \/ DestroyGet(w)
    \/ DestroyPreDelete(w)
    \/ DestroyDelete(w)

\* Bulk deletes and single deletes on one form, served concurrently by the
\* workers (threads) of one process
Next ==
    \E w \in Workers :
        \/ StartBulkDelete(w, {1}, ConcurrentPayloads, FALSE)
        \/ BulkDeleteStep(w)
        \/ StartDestroy(w, {1}, ConcurrentIds, FALSE)
        \/ DestroyStep(w)
        \/ Finish(w)

Spec == Init /\ [][Next]_vars

\* Requests served one at a time
NextSeq ==
    \E w \in Workers :
        \/ StartBulkDelete(w, XFormIds, BulkPayloads, TRUE)
        \/ BulkDeleteStep(w)
        \/ StartBulkValidationStatus(w, XFormIds, BulkPayloads, TRUE)
        \/ BulkValidationStatusStep(w)
        \/ StartDestroy(w, XFormIds, SubmissionIds, TRUE)
        \/ DestroyStep(w)
        \/ Finish(w)

SpecSeq == Init /\ [][NextSeq]_vars

\* The filter resolver on every payload of its universe: the requests of
\* the first worker, which stop once their filters are built
NextResolve ==
    \/ StartBulkDelete(1, XFormIds, AllPayloads, TRUE)
    \/ BulkDeleteBuild(1)
    \/ StartBulkValidationStatus(1, XFormIds, AllPayloads, TRUE)
    \/ BulkValidationStatusBuild(1)
    \/ Finish(1)

SpecResolve == Init /\ [][NextResolve]_vars

\* Payloads whose resolution fails, one or two of each kind (both
\* selectors, a query that is no mapping, ids that are no integers, no
\* confirmation), and two whose resolution succeeds
ResolutionPayloads ==
    { MkPayload({JDict({ <<"kind", JStr("monthly")>> })},
                {JList(<< JInt(2), JInt(3) >>)}, {}, {}),
      MkPayload({JStr("kind")}, {}, {}, {}),
      MkPayload({}, {JList(<< JInt(2), JStr("x") >>)}, {}, {}),
      MkPayload({}, {JList(<< JInt(2), JNull >>)}, {}, {}),
      MkPayload({}, {}, {}, {}),
      MkPayload({}, {}, {JInt(1)}, {}),
      MkPayload({}, {JList(<< JInt(2), JInt(3) >>)}, {}, {}),
      MkPayload({}, {}, {JBool(TRUE)}, {}) }

\* Bulk requests that fail or succeed, served one at a time by the first
\* worker
NextFailures ==
    \/ StartBulkDelete(1, XFormIds, ResolutionPayloads, TRUE)
    \/ BulkDeleteStep(1)
    \/ StartBulkValidationStatus(1, XFormIds, ResolutionPayloads, TRUE)
    \/ BulkValidationStatusStep(1)
    \/ Finish(1)

SpecFailures == Init /\ [][NextFailures]_vars

\* The forms with every combination of flags and tags
InitLookup ==
    /\ InitStores
    /\ XForm \in [XFormIds -> Sharings]
    /\ InitRest

\* The requests that resolve forms and submissions: those of the first
\* worker
NextLookup ==
    \/ StartLookup(1, TRUE)
    \/ LookupFilter(1)
    \/ LookupGet(1)
    \/ Finish(1)

SpecLookup == InitLookup /\ [][NextLookup]_vars

\* The submissions of the label requests with every set of tags
InitLabels ==
    /\ InitStores
    /\ XForm = [f \in XFormIds |-> NoSharing]
    /\ TaggedItem \in SUBSET ((LabelIds \cap SubmissionIds) \X {<<"a">>, <<"b">>})
    /\ UserProfile = <<>>
    /\ Attachment = {}
    /\ command = NoCommand

\* The requests on labels: those of the first worker
NextLabels ==
    \/ StartLabels(1, TRUE)
    \/ LabelsGet(1)
    \/ LabelsTags(1)
    \/ Finish(1)

SpecLabels == InitLabels /\ [][NextLabels]_vars

(***************************************************************************)
(* The management command update_attachment_storage_bytes.  A row of XForm *)
(* carries its owner (user_id) and attachment_storage_bytes, a row of      *)
(* Attachment the form of its submission and media_file_size.              *)
(***************************************************************************)
NumForms == 3

NumUsers == 2

\* The number of times the command is started
MaxRuns == 2

CommandForms == 1..NumForms

Users == 1..NumUsers

\* ReplaceValues('metadata', updates=...): the document with the values of
\* the keys of updates replaced; NULL stays NULL
ReplaceValues(metadata, updates) ==
    IF metadata.null THEN metadata
    ELSE [k \in DOMAIN metadata |-> IF k \in DOMAIN updates THEN updates[k] ELSE metadata[k]]

\* filter(metadata__attachments_counting_status='complete')
Complete(profile) ==
    profile.exists /\ ~profile.metadata.null
               /\ profile.metadata.attachments_counting_status = "complete"

\* exclude(metadata__attachments_counting_status='complete'): the ORM negates
\* the comparison of the key with 'complete' (and of the column with
\* NULL); a document without the key compares as NULL, and its row is not
\* selected
ExcludeComplete(profiles) ==
    {u \in DOMAIN profiles :
        /\ profiles[u].exists
        /\ \/ profiles[u].metadata.null
           \/ profiles[u].metadata.attachments_counting_status \notin {"absent", "complete"}}

\* lines 32-39
ReleaseLocks(profiles) ==
    [u \in DOMAIN profiles |->
        IF u \in ExcludeComplete(profiles)
        THEN [profiles[u] EXCEPT !.metadata =
                 ReplaceValues(@, [submissions_suspended |-> "false"])]
        ELSE profiles[u]]

\* lines 42-50: the forms of the users whose profile is not complete
SelectedXForms(forms, profiles) ==
    {f \in DOMAIN forms : ~Complete(profiles[forms[f].user_id])}

\* order_by('user_id'): any order of the rows that ascends on user_id
OrderedByUser(S, forms) ==
    {q \in [1..Cardinality(S) -> S] :
        /\ \A i \in DOMAIN q : \A j \in DOMAIN q : q[i] = q[j] => i = j
        /\ \A i \in DOMAIN q : \A j \in DOMAIN q :
              i < j => forms[q[i]].user_id <= forms[q[j]].user_id}

RECURSIVE SumSizes(_)
SumSizes(rows) ==
    IF rows = {} THEN 0
    ELSE LET a == CHOOSE a \in rows : TRUE
         IN  a.media_file_size + SumSizes(rows \ {a})

\* lines 89-91: aggregate(total=Sum('media_file_size')); None without rows
FormAttachmentsTotal(attachments, pk) ==
    LET rows == {a \in attachments : a.xform_id = pk}
    IN  IF rows = {} THEN None ELSE SumSizes(rows)

\* line 93: if form_attachments['total']
TotalIsTruthy(total) == total # None /\ total # 0

\* lines 135-138
ProfileUpdates ==
    [submissions_suspended |-> "false", attachments_counting_status |-> "complete"]

\* lines 123-147: update_user_profile
update_user_profile(profiles, user_id, total) ==
    [u \in DOMAIN profiles |->
        IF u = user_id /\ profiles[u].exists
        THEN [profiles[u] EXCEPT !.attachment_storage_bytes = total,
                                 !.metadata = ReplaceValues(@, ProfileUpdates)]
        ELSE profiles[u]]

\* Where the loop of line 53 goes for its i-th form (line 55: the first
\* form, or a form of another user than the last one)
LoopLabel(xforms, i, last_xform, forms) ==
    IF i > Len(xforms) THEN "final"
    ELSE IF last_xform = 0 \/ forms[last_xform].user_id # forms[xforms[i]].user_id
    THEN "get_or_create"
    ELSE "aggregate"

CommandStep(label) ==
    /\ command.pc = label
    /\ UNCHANGED <<shared, pc, request, local, response, started, last, TaggedItem, Attachment>>

\* The command is started: lines 23-29
StartCommand ==
    /\ command.pc \in {"none", "done", "interrupted"}
    /\ command.runs < MaxRuns
    /\ command' = [pc |-> "release",
                   total_per_user |-> [u \in Users |-> 0],
                   xforms |-> <<>>, i |-> 0, last_xform |-> 0,
                   user_profile |-> NoProfile,
                   runs |-> command.runs + 1,
                   initial |-> IF command.runs = 0 THEN <<XForm, UserProfile>>
                               ELSE command.initial,
                   at_start |-> <<XForm, UserProfile>>]
    /\ UNCHANGED <<shared, pc, request, local, response, started, last, XForm, TaggedItem,
                   UserProfile, Attachment>>

\* lines 32-39: the profiles that are not complete are released
Release ==
    /\ CommandStep("release")
    /\ UserProfile' = ReleaseLocks(UserProfile)
    /\ command' = [command EXCEPT !.pc = "select"]
    /\ XForm' = XForm

\* lines 42-53: the forms to count, as the loop's query returns them
Select ==
    /\ CommandStep("select")
    /\ \E q \in OrderedByUser(SelectedXForms(XForm, UserProfile), XForm) :
         command' = [command EXCEPT !.xforms = q, !.i = 1,
                                    !.pc = LoopLabel(q, 1, 0, XForm)]
    /\ UNCHANGED <<XForm, UserProfile>>

\* lines 55-60: the profile of the form's user, created when the user has none
GetOrCreate ==
    /\ CommandStep("get_or_create")
    /\ LET u == XForm[command.xforms[command.i]].user_id
           row == IF UserProfile[u].exists THEN UserProfile[u] ELSE NewProfile
       IN  /\ UserProfile' = [UserProfile EXCEPT ![u] = row]
           /\ command' = [command EXCEPT !.user_profile = row, !.pc = "suspend"]
    /\ XForm' = XForm

\* (the flag taken as set already: it is left as it is)
SuspendedAlready(metadata) == TRUE

\* line 67: metadata.get('submissions_suspended') is truthy
Suspended(metadata) == metadata.submissions_suspended = "true"

\* lines 63-80: metadata None becomes {}, the flag is set and saved unless
\* it is set already
Suspend ==
    /\ CommandStep("suspend")
    /\ LET u == XForm[command.xforms[command.i]].user_id
           metadata == IF command.user_profile.metadata.null THEN EmptyMetadata
                       ELSE command.user_profile.metadata
           saved == [metadata EXCEPT !.submissions_suspended = "true"]
       IN  IF Suspended(metadata)
           THEN /\ UserProfile' = UserProfile
                /\ command' = [command EXCEPT
                       !.user_profile.metadata = metadata,
                       !.pc = IF command.last_xform # 0 THEN "update_previous"
                              ELSE "aggregate"]
           ELSE /\ UserProfile' = [UserProfile EXCEPT ![u].metadata = saved]
                /\ command' = [command EXCEPT
                       !.user_profile.metadata = saved,
                       !.pc = IF command.last_xform # 0 THEN "update_previous"
                              ELSE "aggregate"]
    /\ XForm' = XForm

\* lines 77-80: the profile of the previous user is updated
UpdatePrevious ==
    /\ CommandStep("update_previous")
    /\ LET u == XForm[command.last_xform].user_id
       IN  UserProfile' = update_user_profile(UserProfile, u, command.total_per_user[u])
    /\ command' = [command EXCEPT !.pc = "aggregate"]
    /\ XForm' = XForm

\* lines 89-111: the form's total, written to the form and added to the
\* user's total when it is truthy
Aggregate ==
    /\ CommandStep("aggregate")
    /\ LET xform == command.xforms[command.i]
           u == XForm[xform].user_id
           total == FormAttachmentsTotal(Attachment, xform)
       IN  /\ XForm' = IF TotalIsTruthy(total)
                       THEN [XForm EXCEPT ![xform].attachment_storage_bytes = total]
                       ELSE XForm
           /\ command' = [command EXCEPT
                  !.total_per_user[u] = IF TotalIsTruthy(total) THEN @ + total ELSE @,
                  !.last_xform = xform,
                  !.i = @ + 1,
                  !.pc = LoopLabel(command.xforms, command.i + 1, xform, XForm)]
    /\ UserProfile' = UserProfile

\* lines 115-121: the profile of the last user is updated
Final ==
    /\ CommandStep("final")
    /\ UserProfile' =
          IF command.last_xform # 0
          THEN LET u == XForm[command.last_xform].user_id
               IN  update_user_profile(UserProfile, u, command.total_per_user[u])
          ELSE UserProfile
    /\ command' = [command EXCEPT !.pc = "done"]
    /\ XForm' = XForm

\* The process is stopped anywhere between two of its statements
Interrupt ==
    /\ command.pc \notin {"none", "done", "interrupted"}
    /\ command' = [command EXCEPT !.pc = "interrupted"]
    /\ UNCHANGED <<shared, pc, request, local, response, started, last, XForm, TaggedItem,
                   UserProfile, Attachment>>

\* The attachments a run may find: two of the first form, one of the
\* second, one without bytes of the third
Attachments ==
    { [id |-> 1, xform_id |-> 1, media_file_size |-> 3],
      [id |-> 2, xform_id |-> 1, media_file_size |-> 4],
      [id |-> 3, xform_id |-> 2, media_file_size |-> 5],
      [id |-> 4, xform_id |-> 3, media_file_size |-> 0] }

\* The tables before the command has ever run.  The owners of the three
\* forms; the counter of the forms: zero, or what earlier attachments left
\* in it; the profiles: none, one without metadata, one with an empty
\* document
InitCommand ==
    /\ InitStores
    /\ TaggedItem = {}
    /\ \E owners \in { <<1, 1, 2>>, <<1, 2, 2>>, <<2, 1, 1>>, <<1, 1, 1>> },
          bytes \in {0, 7} :
         XForm = [f \in CommandForms |->
                     [user_id |-> owners[f], attachment_storage_bytes |-> bytes]]
    /\ UserProfile \in
          [Users -> { NoProfile,
                      [exists |-> TRUE, metadata |-> NoMetadata,
                       attachment_storage_bytes |-> 0],
                      NewProfile }]
    /\ Attachment \in SUBSET Attachments
    /\ command = NoCommand

NextCommand ==
    \/ StartCommand
    \/ Release
    \/ Select
    \/ GetOrCreate
    \/ Suspend
    \/ UpdatePrevious
    \/ Aggregate
    \/ Final
    \/ Interrupt

SpecCommand == InitCommand /\ [][NextCommand]_vars

(***************************************************************************)
(* Properties.                                                             *)
(***************************************************************************)
AllConnected == receivers = Range(Handlers)

\* The worker is between its own disconnects and its own connects
WindowOpen(w) == pc[w] \in {"bd_postgres", "bd_mongo", "bd_update"}

\* The worker has disconnected a handler and not yet connected them all again
InSuspension(w) ==
    \/ pc[w] \in {"bd_postgres", "bd_mongo", "bd_update", "bd_connect"}
    \/ pc[w] = "bd_disconnect" /\ local[w].step > 1

NoSuspension == \A w \in Workers : ~InSuspension(w)

\* C1: while any bulk delete is between its suspension and its restoration,
\* the three delete handlers stay disconnected, in every interleaving.
C1_TriggersStayDisconnected ==
    \A w \in Workers : WindowOpen(w) => receivers \cap Range(Handlers) = {}

\* A single delete whose signals are sent while no bulk delete holds the
\* handlers suspended has its per-row side effects
DestroySideEffects(w) ==
    /\ (pc[w] = "ds_pre_delete" /\ pc'[w] = "ds_delete" /\ NoSuspension)
          => local[w].instance.id \notin {d._id : d \in mongo'}
    /\ (pc[w] = "ds_delete" /\ pc'[w] = "done" /\ NoSuspension)
          => num_of_submissions'[request[w].pk] =
                DecrementCount(num_of_submissions[request[w].pk], 1)

\* C2: once no bulk delete is in progress any more, however the bulk deletes
\* ended (response or exception), the three handlers are connected again,
\* and a single delete that follows has its per-row side effects.
C2_TriggersRestored ==
    [][ /\ NoSuspension' => AllConnected'
        /\ \A w \in Workers : DestroySideEffects(w) ]_vars

\* A bulk delete ended by the document store's failure, and no bulk delete
\* in progress
C2_Witness ==
    /\ NoSuspension
    /\ \E w \in Workers :
         /\ pc[w] = "done"
         /\ request[w].action = "bulk_delete"
         /\ response[w].exc = "PyMongoError"
    /\ \E w \in Workers : pc[w] = "ds_pre_delete"

\* The ids of the rows / documents of a form
RowIds(rows, f) == {r.id : r \in {r \in rows : r.xform_id = f}}

DocIds(docs, f) == {d._id : d \in {d \in docs : FormOf(d._id) = f}}

\* A key of the payload as sent holds a non-empty value
Present(data, k) == Has(data, k) /\ Truthy(Get(data, k))

\* The worker's bulk delete has ended with its success response
BulkDeleted(w) ==
    /\ pc[w] = "done"
    /\ request[w].action = "bulk_delete"
    /\ response[w].status = 200

\* C3: served one at a time, a bulk delete that succeeds on a form whose
\* cached count equals its number of live submissions leaves the cached
\* count equal to the number of submissions remaining, and reports the
\* number of rows removed.
C3_CountMatchesRemaining ==
    \A w \in Workers :
        (/\ BulkDeleted(w)
         /\ request[w].before[3][request[w].pk]
               = Cardinality(RowIds(request[w].before[1], request[w].pk)))
        => /\ num_of_submissions[request[w].pk]
                 = Cardinality(RowIds(Instance, request[w].pk))
           /\ response[w].count
                 = Cardinality(RowIds(request[w].before[1], request[w].pk))
                   - Cardinality(RowIds(Instance, request[w].pk))

\* The form with submissions 1..4 and count 4, bulk-deleted with
\* submission_ids=[2,3]: 2 reported, count 2
C3_Witness ==
    \E w \in Workers :
        /\ BulkDeleted(w)
        /\ request[w].pk = 1
        /\ request[w].sent = MkPayload({}, {JList(<< JInt(2), JInt(3) >>)}, {}, {})
        /\ RowIds(request[w].before[1], 1) = 1..(NumSubmissions - 1)
        /\ request[w].before[3][1] = NumSubmissions - 1
        /\ response[w].count = 2
        /\ num_of_submissions[1] = NumSubmissions - 3

\* C4: served one at a time, a bulk delete that succeeds from a state where
\* both stores hold the same submissions of the form leaves them holding
\* the same submissions, none of which the payload selects: none matching
\* the query, none of the listed ids, none at all for confirm-all.
C4_StoresAgreeAfterBulkDelete ==
    \A w \in Workers :
        (/\ BulkDeleted(w)
         /\ RowIds(request[w].before[1], request[w].pk)
               = DocIds(request[w].before[2], request[w].pk))
        => LET f == request[w].pk
               sent == request[w].sent
           IN  /\ RowIds(Instance, f) = DocIds(mongo, f)
               /\ Present(sent, "query") =>
                     {d \in mongo : Matches(d, Get(request[w].data, "query"))} = {}
               /\ Present(sent, "submission_ids") =>
                     \A i \in RowIds(Instance, f) \cup DocIds(mongo, f) :
                        \A e \in Range(Get(sent, "submission_ids").items) :
                           PyInt(e).n # i
               /\ (~Present(sent, "query") /\ ~Present(sent, "submission_ids")) =>
                     RowIds(Instance, f) \cup DocIds(mongo, f) = {}

\* A query that selected some, not all, submissions of the form
C4_Witness ==
    \E w \in Workers :
        /\ BulkDeleted(w)
        /\ Present(request[w].sent, "query")
        /\ response[w].count > 0
        /\ RowIds(Instance, request[w].pk) # {}
        /\ RowIds(request[w].before[1], request[w].pk)
              = DocIds(request[w].before[2], request[w].pk)

\* The worker's request is a bulk operation whose filters have been resolved,
\* with or without success
Resolved(w) ==
    /\ request[w].action \in {"bulk_delete", "bulk_validation_status"}
    /\ pc[w] \notin {"idle", "bd_build", "bvs_build"}
    /\ response[w].exc # NoUidProvided

\* The filters were built
BuiltOk(w) == Resolved(w) /\ local[w].postgres_query # NoFilter

TargetScope(w) == Scope(XFormById(request[w].pk))

\* The integers a list of ids holds
IntSet(list) == {e.n : e \in Range(list.items)}

\* Both filters carry the form: xform_id = F.id and F's base scope
FiltersCarryForm(w) ==
    /\ Has(local[w].postgres_query, "xform_id")
    /\ Get(local[w].postgres_query, "xform_id") = JInt(request[w].pk)
    /\ Has(local[w].mongo_query, USERFORM_ID)
    /\ Get(local[w].mongo_query, USERFORM_ID) = TargetScope(w)

OtherRows(rows, f) == {r \in rows : r.xform_id # f}

OtherDocs(docs, f) == {d \in docs : FormOf(d._id) # f}

\* C5: no step of a bulk delete or bulk validation-status update on form F
\* removes or changes a submission of another form, in either store; and
\* the filters it has built carry xform_id = F.id and F's base scope.
C5_OtherFormsUntouched ==
    [][ \A w \in Workers :
          (/\ request[w].action \in {"bulk_delete", "bulk_validation_status"}
           /\ pc'[w] # pc[w])
          => /\ OtherRows(Instance', request[w].pk) = OtherRows(Instance, request[w].pk)
             /\ OtherDocs(mongo', request[w].pk) = OtherDocs(mongo, request[w].pk)
             /\ BuiltOk(w) => FiltersCarryForm(w) ]_vars

\* A bulk delete on the first form whose submission_ids list a submission
\* of the second form has succeeded, and that submission is in both stores
C5_Witness ==
    \E w \in Workers :
        /\ BulkDeleted(w)
        /\ request[w].pk = 1
        /\ Present(request[w].sent, "submission_ids")
        /\ NumSubmissions \in IntSet(Get(request[w].sent, "submission_ids"))
        /\ response[w].count > 0
        /\ NumSubmissions \in RowIds(Instance, 2) \cap DocIds(mongo, 2)

\* C6: a scope key in the payload's query is replaced by the target form's
\* base scope before the document query runs, and the ids a query resolves
\* to are ids of the target form's submissions.
C6_QueryCannotEscapeForm ==
    \A w \in Workers :
        (BuiltOk(w) /\ Present(request[w].sent, "query"))
        => /\ Has(Get(request[w].data, "query"), USERFORM_ID)
           /\ Get(Get(request[w].data, "query"), USERFORM_ID) = TargetScope(w)
           /\ Has(local[w].postgres_query, "id__in")
           /\ \A i \in IntSet(Get(local[w].postgres_query, "id__in")) :
                 FormOf(i) = request[w].pk

\* A query sent with the scope of the other form, resolved to submissions
C6_Witness ==
    \E w \in Workers :
        /\ BuiltOk(w)
        /\ Present(request[w].sent, "query")
        /\ Has(Get(request[w].sent, "query"), USERFORM_ID)
        /\ Get(Get(request[w].sent, "query"), USERFORM_ID) # TargetScope(w)
        /\ IntSet(Get(local[w].postgres_query, "id__in")) # {}

\* confirm is the boolean true
ConfirmIsTrue(data) ==
    /\ Has(data, "confirm")
    /\ Get(data, "confirm").type = "bool"
    /\ Get(data, "confirm").b

\* C7: resolution fails with the conflicting-selection error exactly when
\* query and submission_ids are both present (non-empty); confirm never
\* causes it: a mapping query with confirm=true is resolved by the query.
C7_ConflictIffBothSelectors ==
    \A w \in Workers :
        Resolved(w) =>
            LET sent == request[w].sent IN
            /\ (response[w].exc = ConflictingSelection)
                  <=> (Present(sent, "query") /\ Present(sent, "submission_ids"))
            /\ (/\ Present(sent, "query")
                /\ Get(sent, "query").type = "dict"
                /\ ~Present(sent, "submission_ids")
                /\ Has(sent, "confirm"))
               => (BuiltOk(w) /\ Has(local[w].postgres_query, "id__in"))

\* A payload with a query and confirm=true, accepted
C7_Witness ==
    \E w \in Workers :
        /\ BuiltOk(w)
        /\ Present(request[w].sent, "query")
        /\ ConfirmIsTrue(request[w].sent)

\* The filters select the whole form: the form id, and the base scope
WholeForm(w) ==
    /\ local[w].postgres_query = JDict({ <<"xform_id", JInt(request[w].pk)>> })
    /\ local[w].mongo_query = JDict({ <<USERFORM_ID, TargetScope(w)>> })

\* C8: with neither selector present, resolution succeeds only if confirm is
\* the boolean true, and then selects the whole form; otherwise (absent,
\* false, 1, "true") it fails with the confirmation-required error.
C8_ConfirmExactlyTrue ==
    \A w \in Workers :
        (/\ Resolved(w)
         /\ ~Present(request[w].sent, "query")
         /\ ~Present(request[w].sent, "submission_ids"))
        => IF ConfirmIsTrue(request[w].sent)
           THEN BuiltOk(w) /\ WholeForm(w)
           ELSE ~BuiltOk(w) /\ response[w].exc = NoConfirmationProvided

\* confirm=1 without a selector, refused
C8_Witness ==
    \E w \in Workers :
        /\ Resolved(w)
        /\ Keys(request[w].sent) \cap {"query", "submission_ids"} = {}
        /\ Has(request[w].sent, "confirm")
        /\ Get(request[w].sent, "confirm") = JInt(1)
        /\ response[w].exc = NoConfirmationProvided

\* An entry of submission_ids that is an integer identifier
ParsesAsId(e) == e.type = "int" \/ (e.type = "str" /\ e.s \in Numerals)

IdOf(e) == IF e.type = "int" THEN e.n ELSE NumeralValue(e.s)

\* C9: for a submission_ids list, resolution fails with the invalid-ids error
\* whenever an entry is no integer identifier; when every entry is one, the
\* relational id-in set and the document _id-in set are the parsed integers.
C9_InvalidIdsOrExactSet ==
    \A w \in Workers :
        (/\ Resolved(w)
         /\ ~Present(request[w].sent, "query")
         /\ Present(request[w].sent, "submission_ids")
         /\ Get(request[w].sent, "submission_ids").type = "list")
        => LET entries == Range(Get(request[w].sent, "submission_ids").items) IN
           IF \E e \in entries : ~ParsesAsId(e)
           THEN response[w].exc = InvalidIds
           ELSE /\ BuiltOk(w)
                /\ IntSet(Get(local[w].postgres_query, "id__in"))
                      = {IdOf(e) : e \in entries}
                /\ IntSet(Get(Get(local[w].mongo_query, "_id"), "$in"))
                      = {IdOf(e) : e \in entries}

\* A key of the payload as sent holds an empty value
EmptyKey(data, k) == Has(data, k) /\ ~Truthy(Get(data, k))

\* C10: a selector key with an empty value counts as absent: it conflicts
\* with nothing, and when no selector is present besides it the payload
\* needs confirm=true and then selects the whole form, not zero submissions.
C10_EmptyValuesAreAbsent ==
    \A w \in Workers :
        (/\ Resolved(w)
         /\ EmptyKey(request[w].sent, "query") \/ EmptyKey(request[w].sent, "submission_ids"))
        => /\ response[w].exc # ConflictingSelection
           /\ (~Present(request[w].sent, "query") /\ ~Present(request[w].sent, "submission_ids"))
              => IF ConfirmIsTrue(request[w].sent)
                 THEN BuiltOk(w) /\ WholeForm(w)
                 ELSE response[w].exc = NoConfirmationProvided

\* An empty submission_ids list with confirm=true: the whole form
C10_Witness ==
    \E w \in Workers :
        /\ BuiltOk(w)
        /\ Has(request[w].sent, "submission_ids")
        /\ Get(request[w].sent, "submission_ids") = JList(<<>>)
        /\ ConfirmIsTrue(request[w].sent)
        /\ WholeForm(w)

\* The worker's step is the filter resolution of its bulk request
ResolveStep(w) == pc[w] \in {"bd_build", "bvs_build"} /\ pc'[w] # pc[w]

\* C11: filter resolution has no side effects: the step that resolves the
\* filters leaves the payload it was given as it was, the query object inside
\* it included, and changes neither store, no cached count and no handler's
\* connection.
C11_ResolutionIsPure ==
    [][ \A w \in Workers :
          ResolveStep(w) => /\ request'[w].data = request[w].data
                            /\ shared' = shared ]_vars

\* The worker's bulk delete repeats the request served last, a bulk delete
\* that succeeded: the same form and the same payload
Repeats(w) ==
    /\ last # NoLast
    /\ request[w].action = "bulk_delete"
    /\ request[w].pk = last.pk
    /\ request[w].sent = last.sent

\* C12: served one at a time, a bulk delete that repeats a bulk delete which
\* succeeded, with no request in between, reports 0 deleted submissions when
\* it succeeds, and no step of it changes a store or a cached count.
C12_RepeatedBulkDeleteIsNoOp ==
    \A w \in Workers :
        Repeats(w) =>
            /\ <<Instance, mongo, num_of_submissions>> = request[w].before
            /\ BulkDeleted(w) => response[w].count = 0

\* submission_ids=[2,3] deleted twice: 2 reported, then 0
C12_Witness ==
    \E w \in Workers :
        /\ Repeats(w)
        /\ BulkDeleted(w)
        /\ last.count = 2
        /\ response[w].count = 0
        /\ num_of_submissions[request[w].pk] = NumSubmissions - 3

\* C13: whatever single and bulk deletions the workers have made on a form,
\* concurrent bulk deletes over overlapping submissions included, each
\* decrementing by its own count of deleted rows, no form's cached
\* submission count is negative.
C13_CountNeverNegative == \A f \in XFormIds : num_of_submissions[f] >= 0

\* A bulk delete that ran while another one was being served has decremented
\* by more than the cached count it found
C13_Witness ==
    \E w \in Workers :
        /\ BulkDeleted(w)
        /\ local[w].records_count > local[w].count_read
        /\ num_of_submissions[request[w].pk] = 0

\* The worker's bulk delete has left its try block by the document store's
\* failure
MongoFailed(w) ==
    /\ request[w].action = "bulk_delete"
    /\ pc[w] \in {"bd_connect", "done"}
    /\ local[w].exc = "PyMongoError"

\* The rows the worker's relational deletion removed
RowsDeleted(w) == Selected(request[w].before[1], local[w].postgres_query)

\* C14: served one at a time, when the document deletion of a bulk delete
\* fails after its relational deletion, the rows stay deleted, the document
\* store and the cached counts are as the request found them (the deletion
\* is not tried again, the form's update does not run), and the request ends
\* with the error: no success response, no count.
C14_MongoFailureKeepsRelationalDelete ==
    \A w \in Workers :
        MongoFailed(w) =>
            /\ Instance = request[w].before[1] \ RowsDeleted(w)
            /\ mongo = request[w].before[2]
            /\ num_of_submissions = request[w].before[3]
            /\ pc[w] = "done" =>
                  /\ response[w].exc = "PyMongoError"
                  /\ response[w].status # 200
                  /\ response[w].count = 0

\* The request has ended with the error, and rows it deleted are gone while
\* their documents remain
C14_Witness ==
    \E w \in Workers :
        /\ MongoFailed(w)
        /\ pc[w] = "done"
        /\ RowsDeleted(w) # {}
        /\ {r.id : r \in RowsDeleted(w)} \subseteq {d._id : d \in mongo}

\* The worker's bulk operation has ended, and its relational filter selected
\* no row of the store as the request found it
EndedOnNoMatch(w) ==
    /\ BuiltOk(w)
    /\ pc[w] = "done"
    /\ Selected(request[w].before[1], local[w].postgres_query) = {}

StoreFailures == {"DatabaseError", "PyMongoError"}

\* C15: served one at a time, a bulk delete or bulk validation-status update
\* whose filter matches no submission ends, unless a store fails, with its
\* success response and a count of 0; and a bulk delete that succeeds this
\* way has still deleted from the document store: no document its document
\* filter matches is left.
C15_NoMatchIsSuccessWithZero ==
    \A w \in Workers :
        EndedOnNoMatch(w) =>
            /\ \/ response[w].exc \in StoreFailures
               \/ response[w].status = 200 /\ response[w].count = 0 /\ response[w].exc = "none"
            /\ BulkDeleted(w) =>
                  {d \in mongo : Matches(d, local[w].mongo_query)} = {}

\* A bulk delete found no row to delete, reported 0, and removed documents
\* that an earlier failure had left behind
C15_Witness ==
    \E w \in Workers :
        /\ EndedOnNoMatch(w)
        /\ BulkDeleted(w)
        /\ response[w].count = 0
        /\ mongo # request[w].before[2]

\* The worker's bulk validation-status update has ended with its success
\* response
BulkValidated(w) ==
    /\ pc[w] = "done"
    /\ request[w].action = "bulk_validation_status"
    /\ response[w].status = 200

\* The ids the payload selects: those of the documents its query matches,
\* those it lists, or every id
PayloadIds(w) ==
    LET sent == request[w].sent IN
    IF Present(sent, "query")
    THEN {d._id : d \in {d \in request[w].before[2] :
                            Matches(d, Get(request[w].data, "query"))}}
    ELSE IF Present(sent, "submission_ids")
    THEN {PyInt(e).n : e \in Range(Get(sent, "submission_ids").items)}
    ELSE SubmissionIds

\* A row / a document is a selected submission of the worker's form
RowSelected(w, r) == r.xform_id = request[w].pk /\ r.id \in PayloadIds(w)

DocSelected(w, d) == FormOf(d._id) = request[w].pk /\ d._id \in PayloadIds(w)

\* C16: served one at a time, a bulk validation-status update that succeeds
\* has set the new status on exactly the selected submissions of its form,
\* in the relational store and in the document store, and left every other
\* row and document as it was; it reports the number of rows it updated; the
\* cached counts are as before and the delete handlers are connected; and a
\* submission of the form whose status was the same in both stores before
\* has the same status in both after.
C16_BulkValidationStatus ==
    \A w \in Workers :
        BulkValidated(w) =>
            LET rows == request[w].before[1]
                docs == request[w].before[2]
                st == local[w].new_validation_status
            IN  /\ Instance = {IF RowSelected(w, r)
                               THEN [r EXCEPT !.validation_status = st] ELSE r : r \in rows}
                /\ mongo = {IF DocSelected(w, d)
                            THEN [d EXCEPT !.validation_status = st] ELSE d : d \in docs}
                /\ response[w].count = Cardinality({r \in rows : RowSelected(w, r)})
                /\ num_of_submissions = request[w].before[3]
                /\ AllConnected
                /\ \A r \in rows : \A d \in docs :
                      (/\ r.id = d._id
                       /\ r.xform_id = request[w].pk
                       /\ r.validation_status = d.validation_status)
                      => \E r2 \in Instance : \E d2 \in mongo :
                            /\ r2.id = r.id
                            /\ d2._id = r.id
                            /\ r2.validation_status = d2.validation_status

\* Some submissions of the form, not all, have taken the new status in both
\* stores
C16_Witness ==
    \E w \in Workers :
        /\ BulkValidated(w)
        /\ response[w].count > 0
        /\ \E r \in Instance : \E d \in mongo :
              /\ r.id = d._id
              /\ r.validation_status = local[w].new_validation_status
              /\ d.validation_status = local[w].new_validation_status
              /\ r.validation_status # ""
        /\ \E r \in Instance : r.xform_id = request[w].pk /\ r.validation_status = ""

\* The payload as sent holds a query that is no mapping
NonMappingQuery(w) ==
    /\ Resolved(w)
    /\ Present(request[w].sent, "query")
    /\ Get(request[w].sent, "query").type # "dict"

\* Resolution has failed with the invalid-query error, having fetched no id
\* from the document store and changed nothing: the payload, the stores, the
\* cached counts and the handlers are as the request found them
InvalidQueryAndNothingDone(w) ==
    /\ response[w].exc = InvalidQuery
    /\ ~QueryScenario(StripEmpty(request[w].sent),
                      get_base_query(XFormById(request[w].pk).username,
                                     XFormById(request[w].pk).id_string),
                      request[w].sent, mongo).has_ids
    /\ request[w].data = request[w].sent
    /\ <<Instance, mongo, num_of_submissions>> = request[w].before
    /\ AllConnected

Retrieved(w) == pc[w] = "done" /\ request[w].action = "retrieve"

\* The form the request names was found
FormResolved(w) == local[w].qs # <<>>

NotAccessible(w) ==
    /\ pc[w] = "done"
    /\ Has(request[w].kwargs, "pk")
    /\ ParsesAsId(Get(request[w].kwargs, "pk"))
    /\ IdOf(Get(request[w].kwargs, "pk")) \in XFormIds \ request[w].permitted

\* The request has a tags parameter that lists tags
TagsGiven(w) ==
    /\ HasParam(request[w].query_params, "tags")
    /\ GetParam(request[w].query_params, "tags") # <<>>

\* C19: when the form a request names is not directly accessible to the
\* requester (and no tags are asked for), the form is resolved if it has
\* shared = true or shared_data = true, and the request fails with not-found
\* only when the form has neither flag.
C19_FallbackToPublicForms ==
    \A w \in Workers :
        (NotAccessible(w) /\ ~TagsGiven(w)) =>
            LET f == IdOf(Get(request[w].kwargs, "pk")) IN
            /\ (XForm[f].shared \/ XForm[f].shared_data) => FormResolved(w)
            /\ response[w].exc = Http404 /\ ~FormResolved(w)
                  => ~(XForm[f].shared \/ XForm[f].shared_data)

\* The tags the request's parameter lists
ListedTags(w) == Range(Split(GetParam(request[w].query_params, "tags"), ","))

\* C20: while a request supplies tags, the forms it resolves (the list, or
\* the form its pk names) carry at least one of the listed tags, and each
\* form is there at most once.
C20_TagsNarrowForms ==
    \A w \in Workers :
        (pc[w] = "done" /\ TagsGiven(w)) =>
            LET qs == local[w].qs IN
            /\ \A i \in 1..Len(qs) : XForm[qs[i]].tags \cap ListedTags(w) # {}
            /\ \A i \in 1..Len(qs) : \A j \in 1..Len(qs) : qs[i] = qs[j] => i = j

\* The worker's request to delete a tag from a submission has ended: the
\* submission was found
LabelDeleted(w) ==
    /\ pc[w] = "done"
    /\ request[w].action = "labels"
    /\ request[w].method = "DELETE"
    /\ request[w].label # NoLabel
    /\ local[w].instance # NoRow

\* The tags of the submission of the worker's request, as the request found
\* them and as they are
TagsFound(w) == {t[2] : t \in {x \in request[w].tagged : x[1] = request[w].dataid}}

TagsNow(w) == {t[2] : t \in {x \in TaggedItem : x[1] = request[w].dataid}}

\* C21: a DELETE on .../labels/<tag_name> of a submission that carries the
\* tag removes the tag from the submission and responds 200 with the names
\* of the remaining tags.
C21_DeleteTagRespondsOk ==
    \A w \in Workers :
        (LabelDeleted(w) /\ request[w].label \in TagsFound(w)) =>
            /\ TagsNow(w) = TagsFound(w) \ {request[w].label}
            /\ response[w].data = TagsNow(w)
            /\ response[w].status = 200

\* The worker's single delete has ended
Destroyed(w) == pc[w] = "done" /\ request[w].action = "destroy"

\* The submission the worker's request names, as the request found it: the
\* rows with its data id that belong to its form
Named(w) ==
    {r \in request[w].before[1] : r.id = request[w].dataid /\ r.xform_id = request[w].pk}

\* The request left the stores and the counts as it found them
NothingDeleted(w) ==
    /\ Instance = request[w].before[1]
    /\ mongo = request[w].before[2]
    /\ num_of_submissions = request[w].before[3]

\* C22: served alone, a DELETE with a form id and the data id of one of the
\* form's submissions removes that submission, and nothing else, and
\* responds 204; without a data id it fails with the parse error 'Data id
\* not provided' and deletes nothing; a destroy never removes more than one
\* submission, and never a form.
C22_DestroyDeletesOneSubmission ==
    \A w \in Workers :
        Destroyed(w) =>
            /\ (request[w].dataid # NoDataId /\ Named(w) # {}) =>
                  /\ Instance = request[w].before[1] \ Named(w)
                  /\ Cardinality(Named(w)) = 1
                  /\ response[w].status = 204
            /\ request[w].dataid = NoDataId =>
                  /\ NothingDeleted(w)
                  /\ response[w].status = 400
                  /\ response[w].exc = "ParseError: Data id not provided"
            /\ Cardinality(request[w].before[1] \ Instance) <= 1
            /\ Instance \subseteq request[w].before[1]
            /\ DOMAIN XForm = XFormIds

\* One submission has been deleted with its count, and the next request,
\* a DELETE without a data id, has been refused
C22_Witness ==
    \E w \in Workers :
        /\ Destroyed(w)
        /\ request[w].dataid = NoDataId
        /\ response[w].status = 400
        /\ Cardinality(Instance) = NumSubmissions - 1
        /\ num_of_submissions[request[w].pk] = Cardinality(RowIds(Instance, request[w].pk))

\* The command has run to its end
CommandDone == command.pc = "done"

\* The forms and the users the run that ended has processed
ProcessedForms == Range(command.xforms)

ProcessedUsers == {XForm[f].user_id : f \in ProcessedForms}

\* The sum of media_file_size over the attachments of a form, of a user's forms
FormBytes(f) == SumSizes({a \in Attachment : a.xform_id = f})

UserBytes(u) == SumSizes({a \in Attachment : XForm[a.xform_id].user_id = u})

\* C23: when the command has completed, the attachment_storage_bytes of
\* every form it processed is the sum of media_file_size over the form's
\* attachments (0 without attachments), and that of the profile of every
\* user it processed is the sum of these totals over the user's forms.
C23_StorageBytesAreSums ==
    CommandDone =>
        /\ \A f \in ProcessedForms : XForm[f].attachment_storage_bytes = FormBytes(f)
        /\ \A u \in ProcessedUsers : UserProfile[u].attachment_storage_bytes = UserBytes(u)

\* The command is counting the user's forms: from the update of the previous
\* user's profile to the total of the user's last form
Counting(u) ==
    /\ command.pc \in {"update_previous", "aggregate"}
    /\ XForm[command.xforms[command.i]].user_id = u

\* C27: while the command counts a user's forms, the user's profile has
\* submissions_suspended true; when the command has completed, the profile
\* of every user who owned a processed form has submissions_suspended false
\* and attachments_counting_status 'complete', and no profile is suspended.
C27_SuspendedWhileCounting ==
    /\ \A u \in Users :
          Counting(u) => /\ UserProfile[u].exists
                         /\ UserProfile[u].metadata.submissions_suspended = "true"
    /\ CommandDone =>
          /\ \A u \in ProcessedUsers :
                /\ UserProfile[u].metadata.submissions_suspended = "false"
                /\ UserProfile[u].metadata.attachments_counting_status = "complete"
          /\ \A u \in Users : UserProfile[u].metadata.submissions_suspended # "true"

\* A run has completed on the forms of two users, one of whom had no profile
\* and one a profile without metadata
C27_Witness ==
    /\ CommandDone
    /\ Cardinality(ProcessedUsers) = 2
    /\ \E u \in ProcessedUsers : ~command.at_start[2][u].exists
    /\ \E u \in ProcessedUsers :
         command.at_start[2][u].exists /\ command.at_start[2][u].metadata.null

\* The tables a single run that is not interrupted leaves, from the forms
\* and the profiles it finds
CountedUsers(forms, profiles) ==
    {forms[f].user_id : f \in SelectedXForms(forms, profiles)}

TotalOrZero(f) ==
    IF TotalIsTruthy(FormAttachmentsTotal(Attachment, f))
    THEN FormAttachmentsTotal(Attachment, f) ELSE 0

UninterruptedForms(forms, profiles) ==
    [f \in DOMAIN forms |->
        IF f \in SelectedXForms(forms, profiles) /\ TotalOrZero(f) # 0
        THEN [forms[f] EXCEPT !.attachment_storage_bytes = TotalOrZero(f)]
        ELSE forms[f]]

UninterruptedProfiles(forms, profiles) ==
    [u \in DOMAIN profiles |->
        IF u \in CountedUsers(forms, profiles)
        THEN [exists |-> TRUE,
              metadata |-> [null |-> FALSE, submissions_suspended |-> "false",
                            attachments_counting_status |-> "complete"],
              attachment_storage_bytes |->
                  SumSizes({a \in Attachment : forms[a.xform_id].user_id = u})]
        ELSE profiles[u]]

\* The profiles and the forms that were complete when the run started are as
\* they were
CompleteLeftAlone ==
    command.at_start # <<>> =>
        \A u \in Users :
            Complete(command.at_start[2][u]) =>
                /\ UserProfile[u] = command.at_start[2][u]
                /\ \A f \in CommandForms :
                      XForm[f].user_id = u => XForm[f] = command.at_start[1][f]

\* Once the release of lines 32-39 has run, no profile that is not complete
\* is suspended
Released ==
    command.pc = "select" =>
        \A u \in Users :
            (UserProfile[u].exists /\ ~Complete(UserProfile[u]))
                => UserProfile[u].metadata.submissions_suspended # "true"

\* A run that ends, the first one or one that follows a completed or an
\* interrupted run, leaves what a single uninterrupted run leaves
SameAsSingleRun ==
    CommandDone =>
        /\ XForm = UninterruptedForms(command.initial[1], command.initial[2])
        /\ UserProfile = UninterruptedProfiles(command.initial[1], command.initial[2])

\* C28: a run after a completed or an interrupted run leaves the complete
\* profiles and their forms unchanged, releases every profile that is not
\* complete (submissions_suspended false) before it recomputes, and, the
\* attachments being the same, ends in the state of a single uninterrupted run.
C28_RerunIsSafe ==
    /\ CompleteLeftAlone
    /\ Released
    /\ SameAsSingleRun

\* The worker's single delete sends pre_delete / deletes its row and sends
\* post_delete in this step
SendsPreDelete(w) == pc[w] = "ds_pre_delete" /\ pc'[w] = "ds_delete"

SendsPostDelete(w) == pc[w] = "ds_delete" /\ pc'[w] = "done"

\* C24: in every interleaving of the bulk deletes and the single deletes of
\* one process, a single delete has its per-row side effects even while a
\* bulk delete holds the handlers suspended: the document of the submission
\* it destroys is removed from the document store, and the form's cached
\* count is decremented for it.
C24_DestroyDuringSuspension ==
    [][ \A w \in Workers :
          /\ SendsPreDelete(w) => local[w].instance.id \notin {d._id : d \in mongo'}
          /\ SendsPostDelete(w) =>
                num_of_submissions'[request[w].pk] =
                   DecrementCount(num_of_submissions[request[w].pk], 1) ]_vars

\* The worker's bulk delete has ended, by its response or by an exception
BulkDeleteEnded(w) == pc[w] = "done" /\ request[w].action = "bulk_delete"

\* The number of rows of the form the worker's request has removed
RowsRemoved(w) ==
    Cardinality(RowIds(request[w].before[1], request[w].pk))
        - Cardinality(RowIds(Instance, request[w].pk))

\* C25: served one at a time, when a bulk delete ends, however it ends, the
\* form's cached count has been decremented by the number of rows the
\* request removed: on a form whose count was right, the count equals the
\* number of submissions remaining, also when the document deletion raised
\* after the relational deletion.
C25_CountReconciledOnEveryExit ==
    \A w \in Workers :
        (/\ BulkDeleteEnded(w)
         /\ request[w].before[3][request[w].pk]
               = Cardinality(RowIds(request[w].before[1], request[w].pk)))
        => /\ num_of_submissions[request[w].pk]
                 = request[w].before[3][request[w].pk] - RowsRemoved(w)
           /\ num_of_submissions[request[w].pk]
                 = Cardinality(RowIds(Instance, request[w].pk))

\* The worker's bulk request has ended
BulkEnded(w) ==
    /\ pc[w] = "done"
    /\ request[w].action \in {"bulk_delete", "bulk_validation_status"}

\* The errors of filter resolution, and of the payload of
\* bulk_validation_status
ResolutionErrors ==
    {ConflictingSelection, InvalidQuery, InvalidIds, NoConfirmationProvided,
     TypeError, NoUidProvided}

\* The payload as it was sent has both selectors, or neither selector and
\* no confirm=true, or, for bulk_validation_status, no validation_status.uid
FailingSent(w) ==
    LET sent == request[w].sent IN
    \/ Present(sent, "query") /\ Present(sent, "submission_ids")
    \/ ~Present(sent, "query") /\ ~Present(sent, "submission_ids") /\ ~ConfirmIsTrue(sent)
    \/ request[w].action = "bulk_validation_status" /\ ~Has(sent, UID_KEY)

\* C26: a bulk_delete or bulk_validation_status request whose filter
\* resolution fails (conflicting selectors, invalid query, invalid ids, no
\* confirmation), or whose payload lacks validation_status.uid, fails before
\* any store is changed and before any handler is disconnected: when it has
\* ended, both stores, the counts and the connected handlers are as they
\* were when it was received.
C26_ResolutionFailsBeforeMutation ==
    \A w \in Workers :
        (BulkEnded(w) /\ (response[w].exc \in ResolutionErrors \/ FailingSent(w))) =>
            /\ response[w].exc \in ResolutionErrors
            /\ NothingDeleted(w)
            /\ AllConnected
            /\ local[w].step = 0

\* A request without confirmation has been refused after an earlier request
\* had deleted submissions
C26_Witness ==
    \E w \in Workers :
        /\ BulkEnded(w)
        /\ response[w].exc = NoConfirmationProvided
        /\ Cardinality(Instance) < NumSubmissions

====
